---- MODULE Spec2Model ----
(***************************************************************************)
(* Verification model of the crypto pattern monitor:                       *)
(*   - the chart-pattern detectors of EnhancedRealTimeMonitor              *)
(*     (src/enhanced_realtime_monitor.py),                                 *)
(*   - the per-symbol candle buffer and its ingestion paths,               *)
(*   - the offline backtest evaluator and its win-rate report              *)
(*     (src/win_rate_test.py),                                             *)
(*   - one analysis pass of the live monitor with its signal deliveries,   *)
(*   - the corroboration checks of the live monitor and of the backtester. *)
(*                                                                         *)
(* Prices are integers (ticks).  Every ratio the code compares as a float  *)
(* is compared here exactly, by cross-multiplication of rationals.         *)
(* Positional indices (iloc) are 0-based as in the code; TLA+ sequences    *)
(* are 1-based, so position i of a column is col[i + 1].                   *)
(***************************************************************************)
EXTENDS Integers, Sequences, FiniteSets, TLC

VARIABLES
    \* --- detector runs (SpecDetect) ---
    df,             \* the DataFrame handed to the detectors (columns + has_atr)
    patterns,       \* the list a detector call returned
    signals,        \* SignalData records built by analyze_pattern, in order
    pc,             \* position of the detection run
    called,         \* which entry point produced `patterns`
    \* --- candle buffer of one symbol (SpecBuffer) ---
    monitor,        \* which monitor class owns the buffer
    driver,         \* how the monitor is driven: direct calls or the schedule
    kline_buffers,  \* self.kline_buffers restricted to the symbol
    message_count,  \* self.message_count
    pattern_count,  \* self.pattern_count
    tasks,          \* analyze_pattern tasks created so far
    now,            \* open time of the exchange's newest bar
    calls,          \* ingestion calls made so far
    appended,       \* history: every entry ever appended to the deque, in order
    last_frame_len, \* history: rows of the last frame handed to the detectors
    last_call,      \* history: the last ingestion call and what it was given
    \* --- backtest evaluation (SpecBacktest) ---
    bt_df,          \* the DataFrame handed to backtest_pattern
    bt_pattern,     \* pattern_type and pattern_idx of the candidate
    bt_result,      \* the dict backtest_pattern returned
    \* --- win-rate report (SpecReport) ---
    results_df,     \* the backtest results handed to analyze_success_rate
    report,         \* what analyze_success_rate reported
    \* --- one analysis pass of a symbol (SpecPass) ---
    pass_df,        \* the local df of process_kline_data
    pass_lib,       \* the columns the ta library computes for these bars
    pass_events,    \* what process_kline_data has done so far, in order
    pass_tasks,     \* the analyze_pattern tasks it created
    \* --- corroboration checks on their own (SpecCheck) ---
    check_in,       \* the arguments of a check
    check_out,      \* what the check returned
    \* --- one send_signal_to_webhook call (SpecSend) ---
    signal_count,   \* self.signal_count
    wh_pc,          \* position in send_signal_to_webhook
    wh_attempt,     \* the loop variable `attempt`
    wh_responses,   \* history: the outcome of every requests.post, in order
    wh_sleeps,      \* history: how many asyncio.sleep(retry_delay) were made
    \* --- the polling thread of the railway deployment (SpecStop) ---
    is_running,     \* self.is_running
    st_pc,          \* position of the thread in _start_http_monitoring
    st_symbol,      \* index of the symbol the for loop is at
    st_round,       \* rounds of the while loop begun so far
    st_wake,        \* where the thread goes on after its sleep
    st_seen,        \* history: the thread has tested the flag and found it cleared
    st_after,       \* history: what the thread began after it found the flag cleared
    \* --- the hourly loop of start_monitoring (SpecSched) ---
    sc_clock,       \* the wall clock, in steps of 10 seconds
    sc_pc,          \* position of the loop: check, cycle or sleep
    sc_until,       \* the clock at which the running cycle or sleep ends
    sc_began,       \* history: the clock when the loop began
    sc_started,     \* history: the clock at every start of a fetch cycle
    sc_checked,     \* history: the clock at every reading of the clock
    sc_longest,     \* history: the longest fetch cycle so far
    \* --- data sources and the polling cycles of start_monitoring (SpecPoll) ---
    current_data_source,\* self.current_data_source
    data_source_failures,\* self.data_source_failures
    last_health_check,\* self.last_health_check (None is -1)
    last_failure_reset,\* self.last_failure_reset
    po_time,        \* time.time(), in seconds
    po_phase,       \* preload, wait for the hour, or fetch cycle
    po_symbol,      \* index of the symbol whose turn is next
    po_cycles,      \* fetch cycles begun so far
    po_turns,       \* history: symbol turns taken in the running cycle
    po_active,      \* self.active_symbols, as symbol indices
    po_buffers,     \* self.kline_buffers, by symbol index
    po_call,        \* history: the last get_historical_klines call
    \* --- one symbol's buffer, the frames built from it and their tasks (SpecFrame) ---
    fr_input,       \* the market the bars come from and the library's outputs
    fr_buffer,      \* self.kline_buffers[symbol]
    fr_fed,         \* history: every bar put in the buffer, in order
    fr_passes,      \* the analysis passes: df, and the list it was built from
    fr_tasks        \* the analyze_pattern tasks created

detVars == <<df, patterns, signals, pc, called>>
bufVars == <<monitor, driver, kline_buffers, message_count, pattern_count,
             tasks, now, calls, appended, last_frame_len, last_call>>
btVars  == <<bt_df, bt_pattern, bt_result>>
rpVars  == <<results_df, report>>
psVars  == <<pass_df, pass_lib, pass_events, pass_tasks>>
ckVars  == <<check_in, check_out>>
analysisVars == <<detVars, bufVars, btVars, rpVars, psVars, ckVars>>
whVars == <<signal_count, wh_pc, wh_attempt, wh_responses, wh_sleeps>>
stVars == <<is_running, st_pc, st_symbol, st_round, st_wake, st_seen, st_after>>
scVars == <<sc_clock, sc_pc, sc_until, sc_began, sc_started, sc_checked, sc_longest>>
poVars == <<current_data_source, data_source_failures, last_health_check, last_failure_reset, po_time, po_phase, po_symbol, po_cycles, po_turns, po_active, po_buffers, po_call>>
frVars == <<fr_input, fr_buffer, fr_fed, fr_passes, fr_tasks>>

\* the variables of the monitor's services, and all variables but one
\* service's
serviceVars == <<whVars, stVars, scVars, poVars, frVars>>
exceptSend == <<analysisVars, stVars, scVars, poVars, frVars>>
exceptStop == <<analysisVars, whVars, scVars, poVars, frVars>>
exceptSched == <<analysisVars, whVars, stVars, poVars, frVars>>
exceptPoll == <<analysisVars, whVars, stVars, scVars, frVars>>
exceptFrame == <<analysisVars, whVars, stVars, scVars, poVars>>

\* values of the variables a specification does not exercise
DetectIdle ==
    /\ df = [high |-> <<>>]
    /\ patterns = <<>>
    /\ signals = <<>>
    /\ pc = "idle"
    /\ called = "none"

BufferIdle ==
    /\ monitor = "none"
    /\ driver = [mode |-> "idle"]
    /\ kline_buffers = [present |-> FALSE, bars |-> <<>>]
    /\ message_count = 0
    /\ pattern_count = 0
    /\ tasks = <<>>
    /\ now = 0
    /\ calls = 0
    /\ appended = <<>>
    /\ last_frame_len = 0
    /\ last_call = [op |-> "none"]

BacktestIdle ==
    /\ bt_df = [high |-> <<>>]
    /\ bt_pattern = [pattern_type |-> "none"]
    /\ bt_result = [returned |-> FALSE]

ReportIdle ==
    /\ results_df = <<>>
    /\ report = [returned |-> FALSE]

PassIdle ==
    /\ pass_df = [high |-> <<>>]
    /\ pass_lib = [atr |-> <<>>]
    /\ pass_events = <<>>
    /\ pass_tasks = <<>>

CheckIdle ==
    /\ check_in = [kind |-> "none"]
    /\ check_out = [returned |-> FALSE]

AnalysisIdle ==
    DetectIdle /\ BufferIdle /\ BacktestIdle /\ ReportIdle /\ PassIdle /\ CheckIdle

SendIdle ==
    /\ signal_count = 0
    /\ wh_pc = "idle"
    /\ wh_attempt = 0
    /\ wh_responses = <<>>
    /\ wh_sleeps = 0

StopIdle ==
    /\ is_running = FALSE
    /\ st_pc = "idle"
    /\ st_symbol = 0
    /\ st_round = 0
    /\ st_wake = "idle"
    /\ st_seen = FALSE
    /\ st_after = <<>>

SchedIdle ==
    /\ sc_clock = 0
    /\ sc_pc = "idle"
    /\ sc_until = 0
    /\ sc_began = 0
    /\ sc_started = <<>>
    /\ sc_checked = <<>>
    /\ sc_longest = 0

PollIdle ==
    /\ current_data_source = "none"
    /\ data_source_failures = <<>>
    /\ last_health_check = <<>>
    /\ last_failure_reset = <<>>
    /\ po_time = 0
    /\ po_phase = "idle"
    /\ po_symbol = 0
    /\ po_cycles = 0
    /\ po_turns = 0
    /\ po_active = {}
    /\ po_buffers = <<>>
    /\ po_call = [for |-> "none"]

FrameIdle ==
    /\ fr_input = [n |-> 0]
    /\ fr_buffer = <<>>
    /\ fr_fed = <<>>
    /\ fr_passes = <<>>
    /\ fr_tasks = <<>>

ServiceIdle == SendIdle /\ StopIdle /\ SchedIdle /\ PollIdle /\ FrameIdle

\* a specification leaves the variables of the other ones alone
DetectOnly == BufferIdle /\ BacktestIdle /\ ReportIdle /\ PassIdle /\ CheckIdle /\ ServiceIdle
BufferOnly == DetectIdle /\ BacktestIdle /\ ReportIdle /\ PassIdle /\ CheckIdle /\ ServiceIdle
BacktestOnly == DetectIdle /\ BufferIdle /\ ReportIdle /\ PassIdle /\ CheckIdle /\ ServiceIdle
ReportOnly == DetectIdle /\ BufferIdle /\ BacktestIdle /\ PassIdle /\ CheckIdle /\ ServiceIdle
PassOnly == DetectIdle /\ BufferIdle /\ BacktestIdle /\ ReportIdle /\ CheckIdle /\ ServiceIdle
CheckOnly == DetectIdle /\ BufferIdle /\ BacktestIdle /\ ReportIdle /\ PassIdle /\ ServiceIdle
SendOnly == AnalysisIdle /\ StopIdle /\ SchedIdle /\ PollIdle /\ FrameIdle
StopOnly == AnalysisIdle /\ SendIdle /\ SchedIdle /\ PollIdle /\ FrameIdle
SchedOnly == AnalysisIdle /\ SendIdle /\ StopIdle /\ PollIdle /\ FrameIdle
PollOnly == AnalysisIdle /\ SendIdle /\ StopIdle /\ SchedIdle /\ FrameIdle
FrameOnly == AnalysisIdle /\ SendIdle /\ StopIdle /\ SchedIdle /\ PollIdle

-----------------------------------------------------------------------------
(* Arithmetic helpers                                                      *)

Abs(x) == IF x < 0 THEN -x ELSE x
Max2(a, b) == IF a >= b THEN a ELSE b
Min2(a, b) == IF a <= b THEN a ELSE b

RECURSIVE Gcd(_, _)
Gcd(a, b) == IF b = 0 THEN a ELSE Gcd(b, a % b)

Lcm(a, b) == (a \div Gcd(a, b)) * b

RECURSIVE LcmOfSet(_)
LcmOfSet(S) ==
    IF S = {} THEN 1
    ELSE LET x == CHOOSE y \in S : TRUE
         IN  Lcm(x, LcmOfSet(S \ {x}))

-----------------------------------------------------------------------------
(* Program constants                                                       *)

MIN_BARS == 100            \* find_enhanced_patterns / head-shoulder minimum
DOUBLE_MIN_BARS == 50      \* _detect_double_patterns minimum
DOUBLE_ORDER == 10         \* argrelextrema order, double patterns
HS_ORDER == 7              \* argrelextrema order, head-and-shoulders
MAX_SPAN == 100            \* time-span cap between constituent extrema

-----------------------------------------------------------------------------
(* DataFrame access                                                        *)

NRows(d) == Len(d.high)

\* df[col].iloc[i]
iloc(col, i) == col[i + 1]

\* scipy.signal.argrelextrema(data, comparator, order=order)[0], mode='clip':
\* the positions whose value compares strictly against every neighbour up to
\* `order` places away on both sides, neighbours past an end being the end.
Clip(j, n) == IF j < 0 THEN 0 ELSE IF j > n - 1 THEN n - 1 ELSE j

Compare(greater, a, b) == IF greater THEN a > b ELSE a < b

IsRelExtremum(data, i, greater, order) ==
    \A s \in 1..order :
        /\ Compare(greater, iloc(data, i), iloc(data, Clip(i + s, Len(data))))
        /\ Compare(greater, iloc(data, i), iloc(data, Clip(i - s, Len(data))))

argrelextrema(data, greater, order) ==
    SelectSeq([k \in 1..Len(data) |-> k - 1],
              LAMBDA i : IsRelExtremum(data, i, greater, order))

\* (df['atr'] / df['close']).mean() as the exact rational num/den:
\* den = n * L with L the least common multiple of the closes.
\* The sum over rows lo..hi is split in halves, so the evaluation nests only
\* logarithmically deep.
RECURSIVE SumAtrOverClose(_, _, _, _)
SumAtrOverClose(d, L, lo, hi) ==
    IF lo > hi THEN 0
    ELSE IF lo = hi THEN d.atr[lo] * (L \div d.close[lo])
    ELSE LET mid == (lo + hi) \div 2
         IN  SumAtrOverClose(d, L, lo, mid) + SumAtrOverClose(d, L, mid + 1, hi)

atr_volatility(d) ==
    LET L == LcmOfSet({d.close[k] : k \in 1..NRows(d)})
    IN  [num |-> SumAtrOverClose(d, L, 1, NRows(d)), den |-> L * NRows(d)]

\* a/b > (mn/md) * vol   and   a/b < (mn/md) * vol, for b > 0
RatioAbove(a, b, mn, md, vol) == a * md * vol.den > mn * vol.num * b
RatioBelow(a, b, mn, md, vol) == a * md * vol.den < mn * vol.num * b

\* df[col].iloc[start:end+1].idxmin() / idxmax() as a position: the first
\* position of the extreme value in start..end.
\* a faulty variant: the minimum is looked up in the whole column
idxmin_WholeColumn(col, start, end) ==
    CHOOSE k \in 0..(Len(col) - 1) :
        /\ \A j \in 0..(Len(col) - 1) : iloc(col, k) <= iloc(col, j)
        /\ \A j \in 0..(k - 1) : iloc(col, j) > iloc(col, k)

idxmin(col, start, end) ==
    CHOOSE k \in start..end :
        /\ \A j \in start..end : iloc(col, k) <= iloc(col, j)
        /\ \A j \in start..(k - 1) : iloc(col, j) > iloc(col, k)

idxmax(col, start, end) ==
    CHOOSE k \in start..end :
        /\ \A j \in start..end : iloc(col, k) >= iloc(col, j)
        /\ \A j \in start..(k - 1) : iloc(col, j) < iloc(col, k)

-----------------------------------------------------------------------------
(* Thresholds of the geometric checks (multiples of atr_volatility)        *)

PRICE_DIFF_MULT == 1       \* 1.0 * atr_volatility: near-equal peaks / shoulders
HEIGHT_MULT == 2           \* 2.0 * atr_volatility: peak above trough
HEAD_SHOULDER_MULT == 2    \* 2.0 * atr_volatility: head vs shoulder
HS_HEIGHT_NUM == 3         \* 1.5 * atr_volatility = 3/2: head above neckline
HS_HEIGHT_DEN == 2

-----------------------------------------------------------------------------
(* _detect_double_patterns                                                 *)

\* for i in range(1, len(high_idx)-1): the pairs (extrema[i-1], extrema[i]);
\* as 1-based pairs (ext[i], ext[i+1]) the last i is len - 2.
DoubleLoopLast(ext) == Len(ext) - 2

\* a faulty variant: the near-equal check made with the 2.0 multiplier of the height check
DoublePriceDiffTooBig_Loose(p1, p2, vol) ==
    RatioAbove(2 * Abs(p1 - p2), p1 + p2, HEIGHT_MULT, 1, vol)

\* price_diff_ratio > 1.0 * atr_volatility  (ratio = |p1 - p2| / ((p1 + p2) / 2))
DoublePriceDiffTooBig(p1, p2, vol) ==
    RatioAbove(2 * Abs(p1 - p2), p1 + p2, PRICE_DIFF_MULT, 1, vol)

\* a faulty variant: no minimum height between the two extrema
DoubleHeightTooSmall_Off(p1, p2, ref, vol) == FALSE

\* height_ratio1 < 2.0 * atr_volatility or height_ratio2 < 2.0 * atr_volatility
DoubleHeightTooSmall(p1, p2, ref, vol) ==
    \/ RatioBelow(Abs(p1 - ref), p1, HEIGHT_MULT, 1, vol)
    \/ RatioBelow(Abs(p2 - ref), p2, HEIGHT_MULT, 1, vol)

\* a faulty variant: the candidate anchored at its first extremum
DoubleConfirmIdx_First(idx1, idx2) == idx1

\* 'pattern_idx': idx2 -- the second peak / trough is the confirmation point
DoubleConfirmIdx(idx1, idx2) == idx2

DoubleTopPasses(d, vol, idx1, idx2) ==
    LET start == Min2(idx1, idx2)
        end   == Max2(idx1, idx2)
    IN  /\ ~(Abs(idx2 - idx1) > MAX_SPAN)
        /\ ~DoublePriceDiffTooBig(iloc(d.high, idx1), iloc(d.high, idx2), vol)
        /\ ~(start >= end)
        /\ ~DoubleHeightTooSmall(iloc(d.high, idx1), iloc(d.high, idx2),
                                 iloc(d.low, idxmin(d.low, start, end)), vol)

DoubleTopRecord(d, idx1, idx2) ==
    LET c == DoubleConfirmIdx(idx1, idx2)
    IN  [type        |-> "double_top",
         idx1        |-> idx1,
         idx2        |-> idx2,
         trough_idx  |-> idxmin(d.low, Min2(idx1, idx2), Max2(idx1, idx2)),
         timestamp   |-> iloc(d.timestamp, c),
         price       |-> iloc(d.close, c),
         pattern_idx |-> c]

RECURSIVE DoubleTopScan(_, _, _, _)
DoubleTopScan(d, vol, high_idx, i) ==
    IF i > DoubleLoopLast(high_idx) THEN <<>>
    ELSE (IF DoubleTopPasses(d, vol, high_idx[i], high_idx[i + 1])
          THEN <<DoubleTopRecord(d, high_idx[i], high_idx[i + 1])>>
          ELSE <<>>)
         \o DoubleTopScan(d, vol, high_idx, i + 1)

DoubleBottomPasses(d, vol, idx1, idx2) ==
    LET start == Min2(idx1, idx2)
        end   == Max2(idx1, idx2)
    IN  /\ ~(Abs(idx2 - idx1) > MAX_SPAN)
        /\ ~DoublePriceDiffTooBig(iloc(d.low, idx1), iloc(d.low, idx2), vol)
        /\ ~(start >= end)
        /\ ~DoubleHeightTooSmall(iloc(d.low, idx1), iloc(d.low, idx2),
                                 iloc(d.high, idxmax(d.high, start, end)), vol)

DoubleBottomRecord(d, idx1, idx2) ==
    LET c == DoubleConfirmIdx(idx1, idx2)
    IN  [type        |-> "double_bottom",
         idx1        |-> idx1,
         idx2        |-> idx2,
         peak_idx    |-> idxmax(d.high, Min2(idx1, idx2), Max2(idx1, idx2)),
         timestamp   |-> iloc(d.timestamp, c),
         price       |-> iloc(d.close, c),
         pattern_idx |-> c]

RECURSIVE DoubleBottomScan(_, _, _, _)
DoubleBottomScan(d, vol, low_idx, i) ==
    IF i > DoubleLoopLast(low_idx) THEN <<>>
    ELSE (IF DoubleBottomPasses(d, vol, low_idx[i], low_idx[i + 1])
          THEN <<DoubleBottomRecord(d, low_idx[i], low_idx[i + 1])>>
          ELSE <<>>)
         \o DoubleBottomScan(d, vol, low_idx, i + 1)

\* The whole method: the length guard, then the scan inside try/except.
\* df['atr'] on a frame without that column raises KeyError, which the
\* except clause turns into [].
detect_double_patterns(d) ==
    IF NRows(d) < DOUBLE_MIN_BARS THEN <<>>
    ELSE IF ~d.has_atr THEN <<>>
    ELSE LET vol == atr_volatility(d)
         IN  DoubleTopScan(d, vol, argrelextrema(d.high, TRUE, DOUBLE_ORDER), 1)
             \o DoubleBottomScan(d, vol, argrelextrema(d.low, FALSE, DOUBLE_ORDER), 1)

\* win_rate_test.find_double_patterns: the same two scans, without the length
\* guard and without the except clause (a frame with no 'atr' column raises).
find_double_patterns(d) ==
    LET vol == atr_volatility(d)
    IN  DoubleTopScan(d, vol, argrelextrema(d.high, TRUE, DOUBLE_ORDER), 1)
        \o DoubleBottomScan(d, vol, argrelextrema(d.low, FALSE, DOUBLE_ORDER), 1)

-----------------------------------------------------------------------------
(* _detect_head_shoulder_patterns                                          *)

\* for i in range(2, len(high_idx)-2): the triples (ext[i-2], ext[i-1], ext[i]);
\* as 1-based triples (ext[j], ext[j+1], ext[j+2]) the last j is len - 4.
HSLoopLast(ext) == Len(ext) - 4

\* a faulty variant: a head level with a shoulder is let through
HeadNotAbove_NonStrict(head, left, right) == head < left \/ head < right

\* head_price <= left_shoulder_price or head_price <= right_shoulder_price
HeadNotAbove(head, left, right) == head <= left \/ head <= right

\* head_price >= left_shoulder_price or head_price >= right_shoulder_price
HeadNotBelow(head, left, right) == head >= left \/ head >= right

\* a faulty variant: the head-to-shoulder distance is not limited
HeadShoulderGapTooBig_Off(head, left, right, vol) == FALSE

\* head_shoulder_ratio1 > 2.0 * vol or head_shoulder_ratio2 > 2.0 * vol
HeadShoulderGapTooBig(head, left, right, vol) ==
    \/ RatioAbove(Abs(head - left), Abs(head), HEAD_SHOULDER_MULT, 1, vol)
    \/ RatioAbove(Abs(head - right), Abs(head), HEAD_SHOULDER_MULT, 1, vol)

\* shoulder_diff_ratio > 1.0 * atr_volatility
ShoulderDiffTooBig(left, right, vol) ==
    RatioAbove(2 * Abs(left - right), left + right, PRICE_DIFF_MULT, 1, vol)

\* height_ratio < 1.5 * atr_volatility
HSHeightTooSmall(head, ref, vol) ==
    RatioBelow(Abs(head - ref), Abs(head), HS_HEIGHT_NUM, HS_HEIGHT_DEN, vol)

\* 'pattern_idx': right_shoulder_idx
HSConfirmIdx(left_shoulder_idx, head_idx, right_shoulder_idx) == right_shoulder_idx

HSTopPasses(d, vol, ls, hd, rs) ==
    LET start == Min2(ls, rs)
        end   == Max2(ls, rs)
        head_price  == iloc(d.high, hd)
        left_price  == iloc(d.high, ls)
        right_price == iloc(d.high, rs)
    IN  /\ ~(Abs(hd - ls) > MAX_SPAN \/ Abs(rs - hd) > MAX_SPAN)
        /\ ~HeadNotAbove(head_price, left_price, right_price)
        /\ ~HeadShoulderGapTooBig(head_price, left_price, right_price, vol)
        /\ ~ShoulderDiffTooBig(left_price, right_price, vol)
        /\ ~(start >= end)
        /\ ~HSHeightTooSmall(head_price, iloc(d.low, idxmin(d.low, start, end)), vol)

HSTopRecord(d, ls, hd, rs) ==
    LET c == HSConfirmIdx(ls, hd, rs)
    IN  [type               |-> "head_shoulder_top",
         left_shoulder_idx  |-> ls,
         head_idx           |-> hd,
         right_shoulder_idx |-> rs,
         trough_idx         |-> idxmin(d.low, Min2(ls, rs), Max2(ls, rs)),
         timestamp          |-> iloc(d.timestamp, c),
         price              |-> iloc(d.close, c),
         pattern_idx        |-> c]

RECURSIVE HSTopScan(_, _, _, _)
HSTopScan(d, vol, high_idx, j) ==
    IF j > HSLoopLast(high_idx) THEN <<>>
    ELSE (IF HSTopPasses(d, vol, high_idx[j], high_idx[j + 1], high_idx[j + 2])
          THEN <<HSTopRecord(d, high_idx[j], high_idx[j + 1], high_idx[j + 2])>>
          ELSE <<>>)
         \o HSTopScan(d, vol, high_idx, j + 1)

HSBottomPasses(d, vol, ls, hd, rs) ==
    LET start == Min2(ls, rs)
        end   == Max2(ls, rs)
        head_price  == iloc(d.low, hd)
        left_price  == iloc(d.low, ls)
        right_price == iloc(d.low, rs)
    IN  /\ ~(Abs(hd - ls) > MAX_SPAN \/ Abs(rs - hd) > MAX_SPAN)
        /\ ~HeadNotBelow(head_price, left_price, right_price)
        /\ ~HeadShoulderGapTooBig(head_price, left_price, right_price, vol)
        /\ ~ShoulderDiffTooBig(left_price, right_price, vol)
        /\ ~(start >= end)
        /\ ~HSHeightTooSmall(head_price, iloc(d.high, idxmax(d.high, start, end)), vol)

HSBottomRecord(d, ls, hd, rs) ==
    LET c == HSConfirmIdx(ls, hd, rs)
    IN  [type               |-> "head_shoulder_bottom",
         left_shoulder_idx  |-> ls,
         head_idx           |-> hd,
         right_shoulder_idx |-> rs,
         peak_idx           |-> idxmax(d.high, Min2(ls, rs), Max2(ls, rs)),
         timestamp          |-> iloc(d.timestamp, c),
         price              |-> iloc(d.close, c),
         pattern_idx        |-> c]

RECURSIVE HSBottomScan(_, _, _, _)
HSBottomScan(d, vol, low_idx, j) ==
    IF j > HSLoopLast(low_idx) THEN <<>>
    ELSE (IF HSBottomPasses(d, vol, low_idx[j], low_idx[j + 1], low_idx[j + 2])
          THEN <<HSBottomRecord(d, low_idx[j], low_idx[j + 1], low_idx[j + 2])>>
          ELSE <<>>)
         \o HSBottomScan(d, vol, low_idx, j + 1)

detect_head_shoulder_patterns(d) ==
    IF NRows(d) < MIN_BARS THEN <<>>
    ELSE IF ~d.has_atr THEN <<>>
    ELSE LET vol == atr_volatility(d)
         IN  HSTopScan(d, vol, argrelextrema(d.high, TRUE, HS_ORDER), 1)
             \o HSBottomScan(d, vol, argrelextrema(d.low, FALSE, HS_ORDER), 1)

\* find_enhanced_patterns: the 100-bar gate, the ATR check, then both detectors.
\* (An ATR column that exists is never all-NaN here: has_atr covers both tests.)
find_enhanced_patterns(d) ==
    IF NRows(d) < MIN_BARS THEN <<>>
    ELSE IF ~d.has_atr THEN <<>>
    ELSE detect_double_patterns(d) \o detect_head_shoulder_patterns(d)

-----------------------------------------------------------------------------
(* analyze_pattern: the Signal built from a candidate                      *)

\* signal_price = df.iloc[pattern_idx]['close'];
\* signal_timestamp = df.index[pattern_idx]
SignalData(symbol, d, pattern) ==
    [symbol       |-> symbol,
     timestamp    |-> iloc(d.timestamp, pattern.pattern_idx),
     price        |-> iloc(d.close, pattern.pattern_idx),
     pattern_type |-> pattern.type]

-----------------------------------------------------------------------------
(* Input frames of the detection runs                                      *)
(*                                                                         *)
(* A frame is n hourly bars around a flat market (high 111, low 99, close  *)
(* alternating 100 / 110) carrying up to five spikes, 15 bars apart: spike *)
(* k has its tip at position 15 * k and is heights[k] ticks tall (0: no    *)
(* spike).  The spikes point up (in the highs), down (in the lows) or both *)
(* ways.                                                                   *)
(* The ATR column is 0 during the 13-bar warm-up and flat afterwards.      *)

MaxHeight == 13            \* tallest spike of the input frames
ShortBars == 60            \* length of the short input frames

SpikePos(k) == 15 * k

Tent(i, pos, h) == Max2(0, h - 3 * Abs(i - pos))

RECURSIVE BumpFrom(_, _, _)
BumpFrom(i, heights, k) ==
    IF k = 0 THEN 0
    ELSE Max2(Tent(i, SpikePos(k), heights[k]), BumpFrom(i, heights, k - 1))

Bump(i, heights) == BumpFrom(i, heights, Len(heights))

MakeFrame(p) ==
    [timestamp |-> [k \in 1..p.n |-> 1000 + (k - 1)],
     open      |-> [k \in 1..p.n |-> 105],
     high      |-> [k \in 1..p.n |-> IF p.dir = "down" THEN 111
                                     ELSE 111 + Bump(k - 1, p.heights)],
     low       |-> [k \in 1..p.n |-> IF p.dir = "up" THEN 99
                                     ELSE 99 - Bump(k - 1, p.heights)],
     close     |-> [k \in 1..p.n |-> IF (k - 1) % 2 = 0 THEN 100 ELSE 110],
     volume    |-> [k \in 1..p.n |-> 1000],
     atr       |-> [k \in 1..p.n |-> IF k - 1 < 13 THEN 0 ELSE p.atr],
     has_atr   |-> p.has_atr]

Heights == {0, MaxHeight - 3, MaxHeight - 2, MaxHeight}

\* spikes 4 and 5 are plain trailing spikes: none, one or two of them
TailHeights(t) == <<IF t >= 1 THEN MaxHeight - 3 ELSE 0,
                    IF t >= 2 THEN MaxHeight - 3 ELSE 0>>

FullInputs ==
    { [n |-> MIN_BARS, heights |-> <<a, b, c>> \o TailHeights(t),
       atr |-> 2, dir |-> "up", has_atr |-> TRUE]
      : a \in Heights, b \in Heights, c \in Heights, t \in 0..2 }

VariantInputs ==
    { [n |-> n, heights |-> <<a, MaxHeight, c>> \o TailHeights(2),
       atr |-> atr, dir |-> m, has_atr |-> TRUE]
      : a \in Heights \ {0}, c \in Heights \ {0, MaxHeight},
        atr \in {2, 12}, m \in {"up", "down", "both"},
        n \in {MIN_BARS, MIN_BARS + 1} }

ShortInputs ==
    { [n |-> n, heights |-> <<MaxHeight - 3, MaxHeight - 2, MaxHeight - 3, 0, 0>>,
       atr |-> 2, dir |-> m, has_atr |-> h]
      : n \in {DOUBLE_MIN_BARS - 1, ShortBars, MIN_BARS - 1, MIN_BARS},
        m \in {"up", "down"}, h \in BOOLEAN }

DetectInputs == FullInputs \cup VariantInputs \cup ShortInputs

\* Frames as long as the live buffer, with spikes at chosen bars: extrema
\* 105 and exactly 100 bars apart, a head 104 bars after its left shoulder,
\* shoulders far below the head, and shallow spikes.
WideBars == 144            \* length of the wide input frames

RECURSIVE BumpAt(_, _, _)
BumpAt(i, spikes, k) ==
    IF k = 0 THEN 0
    ELSE Max2(Tent(i, spikes[k][1], spikes[k][2]), BumpAt(i, spikes, k - 1))

SpikeFrame(p) ==
    [timestamp |-> [k \in 1..p.n |-> 1000 + (k - 1)],
     open      |-> [k \in 1..p.n |-> 105],
     high      |-> [k \in 1..p.n |-> IF p.dir = "down" THEN 111
                                     ELSE 111 + BumpAt(k - 1, p.spikes, Len(p.spikes))],
     low       |-> [k \in 1..p.n |-> IF p.dir = "up" THEN 99
                                     ELSE 99 - BumpAt(k - 1, p.spikes, Len(p.spikes))],
     close     |-> [k \in 1..p.n |-> IF (k - 1) % 2 = 0 THEN 100 ELSE 110],
     volume    |-> [k \in 1..p.n |-> 1000],
     atr       |-> [k \in 1..p.n |-> IF k - 1 < 13 THEN 0 ELSE p.atr],
     has_atr   |-> TRUE]

SpikeLayouts ==
    { << <<20, 10>>, <<125, 10>>, <<140, 10>> >>,
      << <<20, 10>>, <<120, 10>>, <<140, 10>> >>,
      << <<11, 10>>, <<115, 13>>, <<124, 10>>, <<133, 10>>, <<142, 10>> >>,
      << <<15, 7>>, <<30, 13>>, <<45, 7>>, <<60, 10>>, <<75, 10>> >>,
      << <<15, 10>>, <<30, 13>>, <<45, 6>>, <<60, 10>>, <<75, 10>> >>,
      << <<15, 3>>, <<30, 3>>, <<45, 3>> >> }

GeometryInputs ==
    { [n |-> WideBars, spikes |-> s, atr |-> a, dir |-> m]
      : s \in SpikeLayouts, a \in {2, 12}, m \in {"up", "down", "both"} }

DetectFrames ==
    {MakeFrame(p) : p \in DetectInputs} \cup {SpikeFrame(p) : p \in GeometryInputs}

-----------------------------------------------------------------------------
(* The detection runs: one frame, one detector call, then one              *)
(* analyze_pattern task per returned candidate, in creation order.         *)

Symbol == "BTCUSDT"

DetectInit ==
    /\ df \in DetectFrames
    /\ patterns = <<>>
    /\ signals = <<>>
    /\ pc = "input"
    /\ called = "none"
    /\ DetectOnly

CallFindEnhancedPatterns ==
    /\ pc = "input"
    /\ patterns' = find_enhanced_patterns(df)
    /\ called' = "find_enhanced_patterns"
    /\ pc' = "analyze"
    /\ UNCHANGED <<df, signals>>
    /\ UNCHANGED <<bufVars, btVars, rpVars, psVars, ckVars, serviceVars>>

CallDetectDouble ==
    /\ pc = "input"
    /\ patterns' = detect_double_patterns(df)
    /\ called' = "_detect_double_patterns"
    /\ pc' = "returned"
    /\ UNCHANGED <<df, signals>>
    /\ UNCHANGED <<bufVars, btVars, rpVars, psVars, ckVars, serviceVars>>

CallDetectHeadShoulder ==
    /\ pc = "input"
    /\ patterns' = detect_head_shoulder_patterns(df)
    /\ called' = "_detect_head_shoulder_patterns"
    /\ pc' = "returned"
    /\ UNCHANGED <<df, signals>>
    /\ UNCHANGED <<bufVars, btVars, rpVars, psVars, ckVars, serviceVars>>

\* the backtester's detector on a frame that has its 'atr' column
CallFindDoublePatterns ==
    /\ pc = "input"
    /\ df.has_atr
    /\ patterns' = find_double_patterns(df)
    /\ called' = "find_double_patterns"
    /\ pc' = "returned"
    /\ UNCHANGED <<df, signals>>
    /\ UNCHANGED <<bufVars, btVars, rpVars, psVars, ckVars, serviceVars>>

AnalyzePattern ==
    /\ pc = "analyze"
    /\ Len(signals) < Len(patterns)
    /\ signals' = Append(signals, SignalData(Symbol, df, patterns[Len(signals) + 1]))
    /\ UNCHANGED <<df, patterns, pc, called>>
    /\ UNCHANGED <<bufVars, btVars, rpVars, psVars, ckVars, serviceVars>>

DetectNext ==
    \/ CallFindEnhancedPatterns
    \/ CallDetectDouble
    \/ CallDetectHeadShoulder
    \/ CallFindDoublePatterns
    \/ AnalyzePattern

SpecDetect == DetectInit /\ [][DetectNext]_detVars

-----------------------------------------------------------------------------
(* Properties of the detectors                                             *)

DetectorReturned ==
    called \in {"find_enhanced_patterns", "_detect_double_patterns",
                "_detect_head_shoulder_patterns"}

PatternsOfType(t) == {k \in 1..Len(patterns) : patterns[k].type = t}

\* the lowest low / highest high of the bars at positions a..b
LowestLow(d, a, b) ==
    CHOOSE v \in {iloc(d.low, j) : j \in a..b} : \A j \in a..b : v <= iloc(d.low, j)

HighestHigh(d, a, b) ==
    CHOOSE v \in {iloc(d.high, j) : j \in a..b} : \A j \in a..b : v >= iloc(d.high, j)

\* C1: every emitted double_top has peak highs that differ by at most
\* 1.0 x atr_volatility relative to their average, and each peak stands at
\* least 2.0 x atr_volatility (relative to its own high) above the lowest
\* low between the two peaks.
C1_DoubleTopGeometry ==
    \A k \in PatternsOfType("double_top") :
        LET p   == patterns[k]
            h1  == iloc(df.high, p.idx1)
            h2  == iloc(df.high, p.idx2)
            t   == LowestLow(df, p.idx1, p.idx2)
            vol == atr_volatility(df)
        IN  /\ 2 * Abs(h1 - h2) * vol.den <= vol.num * (h1 + h2)
            /\ (h1 - t) * vol.den >= 2 * vol.num * h1
            /\ (h2 - t) * vol.den >= 2 * vol.num * h2

\* a double_top of unequal peaks was emitted
C1_Witness ==
    \E k \in PatternsOfType("double_top") :
        iloc(df.high, patterns[k].idx1) # iloc(df.high, patterns[k].idx2)

\* C2: every pair of consecutive high extrema, the last pair included, that
\* passes the span, near-equal-height and trough-depth checks is emitted as a
\* double_top.
C2_EveryAdjacentPairEmitted ==
    (called \in {"find_enhanced_patterns", "_detect_double_patterns"}
        /\ NRows(df) >= MIN_BARS /\ df.has_atr)
    => LET ext == argrelextrema(df.high, TRUE, DOUBLE_ORDER)
           vol == atr_volatility(df)
       IN  \A i \in 1..(Len(ext) - 1) :
               DoubleTopPasses(df, vol, ext[i], ext[i + 1])
               => \E k \in PatternsOfType("double_top") :
                      /\ patterns[k].idx1 = ext[i]
                      /\ patterns[k].idx2 = ext[i + 1]
                      /\ patterns[k].pattern_idx = ext[i + 1]

\* C3: in every emitted head-and-shoulders candidate the head dominates
\* strictly: above both shoulders' highs for a top, below both shoulders'
\* lows for a bottom.
C3_HeadStrictlyDominates ==
    /\ \A k \in PatternsOfType("head_shoulder_top") :
           LET p == patterns[k]
           IN  /\ iloc(df.high, p.head_idx) > iloc(df.high, p.left_shoulder_idx)
               /\ iloc(df.high, p.head_idx) > iloc(df.high, p.right_shoulder_idx)
    /\ \A k \in PatternsOfType("head_shoulder_bottom") :
           LET p == patterns[k]
           IN  /\ iloc(df.low, p.head_idx) < iloc(df.low, p.left_shoulder_idx)
               /\ iloc(df.low, p.head_idx) < iloc(df.low, p.right_shoulder_idx)

\* one run emitted both a head_shoulder_top and a head_shoulder_bottom
C3_Witness ==
    /\ PatternsOfType("head_shoulder_top") # {}
    /\ PatternsOfType("head_shoulder_bottom") # {}

\* C4: every consecutive triple of high extrema, the triples ending at the
\* last and second-to-last extremum included, that passes the geometric
\* checks is emitted as a head_shoulder_top.
C4_EveryTripleEmitted ==
    (called \in {"find_enhanced_patterns", "_detect_head_shoulder_patterns"}
        /\ NRows(df) >= MIN_BARS /\ df.has_atr)
    => LET ext == argrelextrema(df.high, TRUE, HS_ORDER)
           vol == atr_volatility(df)
       IN  \A j \in 1..(Len(ext) - 2) :
               HSTopPasses(df, vol, ext[j], ext[j + 1], ext[j + 2])
               => \E k \in PatternsOfType("head_shoulder_top") :
                      /\ patterns[k].left_shoulder_idx = ext[j]
                      /\ patterns[k].head_idx = ext[j + 1]
                      /\ patterns[k].right_shoulder_idx = ext[j + 2]

\* the last constituent extremum of a candidate
LastConstituent(p) ==
    IF p.type \in {"double_top", "double_bottom"} THEN p.idx2
    ELSE p.right_shoulder_idx

\* C5: every candidate is anchored at its last constituent extremum
\* (pattern_idx = idx2, or = right_shoulder_idx), carries the bar timestamp
\* and the close at that index, and the Signal built from it carries exactly
\* that timestamp and close.
C5_AnchoredAtLastExtremum ==
    /\ \A k \in 1..Len(patterns) :
           LET p == patterns[k]
           IN  /\ p.pattern_idx = LastConstituent(p)
               /\ p.timestamp = iloc(df.timestamp, LastConstituent(p))
               /\ p.price = iloc(df.close, LastConstituent(p))
    /\ \A k \in 1..Len(signals) :
           /\ signals[k].pattern_type = patterns[k].type
           /\ signals[k].timestamp = iloc(df.timestamp, LastConstituent(patterns[k]))
           /\ signals[k].price = iloc(df.close, LastConstituent(patterns[k]))

\* signals were built for a double pattern and for a head-and-shoulders one
C5_Witness ==
    /\ \E k \in 1..Len(signals) : signals[k].pattern_type = "double_top"
    /\ \E k \in 1..Len(signals) : signals[k].pattern_type = "head_shoulder_top"
    /\ Len(signals) = Len(patterns)

\* C6 (detectors): a detection attempt on fewer than 100 bars returns an
\* empty candidate list, whichever detector is called.
C6_NoCandidatesBelowMinBars ==
    (DetectorReturned /\ NRows(df) < MIN_BARS) => patterns = <<>>

-----------------------------------------------------------------------------
(* The candle buffer of one symbol: a deque(maxlen=buffer_size)            *)

buffer_size == 144         \* KLINE_CONFIG['buffer_size']
PRELOAD_LIMIT == 200       \* start_monitoring: max(200, self.buffer_size)
ATR_WINDOW == 14           \* average_true_range(..., window=14)
NaT == 0 - 1               \* index label of a row that has no 'timestamp' key

\* the last n elements of a sequence (all of it when it is shorter)
LastN(s, n) == IF Len(s) <= n THEN s ELSE SubSeq(s, Len(s) - n + 1, Len(s))

\* a faulty variant: an append that never evicts
DequeAppend_Unbounded(q, x) == Append(q, x)

\* deque.append on a deque(maxlen=buffer_size): the oldest entry is dropped
\* from the left once the deque is full
DequeAppend(q, x) == LastN(Append(q, x), buffer_size)

\* deque(iterable, maxlen=buffer_size), and a loop of appends
DequeExtend(q, items) == LastN(q \o items, buffer_size)

\* the bar the exchange reports for open time t (hours); a quiet market
Kline(t) ==
    [kind |-> "kline", time |-> t, open |-> 105, high |-> 111, low |-> 99,
     close |-> IF t % 2 = 0 THEN 110 ELSE 100, volume |-> 1000]

\* the 'cache_data' dict of fetch_latest_klines_api: keyed by open_time, it
\* has no 'timestamp' key
CacheData(k) == [k EXCEPT !.kind = "cache"]

\* get_historical_klines(symbol, limit) on a source whose newest bar opened
\* at time latest: the newest `limit` bars, oldest first (bars exist from 1)
get_historical_klines(latest, limit) ==
    LET first == Max2(1, latest - limit + 1)
    IN  IF latest < 1 \/ limit < 1 THEN <<>>
        ELSE [k \in 1..(latest - first + 1) |-> Kline(first + k - 1)]

\* pd.DataFrame(list(buffer)).set_index('timestamp')
BufferFrame(bars) ==
    [timestamp |-> [k \in 1..Len(bars) |->
                       IF bars[k].kind = "kline" THEN bars[k].time ELSE NaT],
     open      |-> [k \in 1..Len(bars) |-> bars[k].open],
     high      |-> [k \in 1..Len(bars) |-> bars[k].high],
     low       |-> [k \in 1..Len(bars) |-> bars[k].low],
     close     |-> [k \in 1..Len(bars) |-> bars[k].close],
     volume    |-> [k \in 1..Len(bars) |-> bars[k].volume],
     atr       |-> [k \in 1..Len(bars) |-> 0],
     has_atr   |-> FALSE]

\* true range of row i (0-based): the first row has no previous close
true_range(d, i) ==
    LET hl == iloc(d.high, i) - iloc(d.low, i)
    IN  IF i = 0 THEN hl
        ELSE Max2(hl, Max2(Abs(iloc(d.high, i) - iloc(d.close, i - 1)),
                           Abs(iloc(d.low, i) - iloc(d.close, i - 1))))

\* ta.volatility.average_true_range: zeros for the first window-1 rows, the
\* mean of the first `window` true ranges at row window-1, then Wilder's
\* recursion atr[i] = (atr[i-1] * (window-1) + tr[i]) / window.  The bars of
\* Kline have one and the same true range, for which the seed and every
\* later value of the recursion equal that true range; it is evaluated for
\* such frames only.
average_true_range(d) ==
    [k \in 1..NRows(d) |-> IF k - 1 < ATR_WINDOW - 1 THEN 0 ELSE true_range(d, k - 1)]

calculate_basic_indicators(d) ==
    IF NRows(d) < MIN_BARS THEN d
    ELSE [d EXCEPT !.atr = average_true_range(d), !.has_atr = TRUE]

-----------------------------------------------------------------------------
(* The detectors of the railway deployment (railway-deploy/app.py)         *)

RAILWAY_MIN_BARS == 50     \* len(df) < 50
RAILWAY_WINDOW == 5        \* rolling(window=5, center=True)
RAILWAY_DOUBLE_TAIL == 10  \* high_points.tail(10)
RAILWAY_HS_TAIL == 15      \* high_points.tail(15)
RAILWAY_DOUBLE_PCT == 2    \* height_ratio < 0.02
RAILWAY_HS_PCT == 3        \* shoulder_ratio < 0.03

\* positions whose value equals the centred rolling max (or min); the
\* window is incomplete at the first and last window \div 2 rows, where the
\* rolling value is NaN and the comparison is False
RailwayExtrema(col, isMax) ==
    LET n    == Len(col)
        half == RAILWAY_WINDOW \div 2
    IN  SelectSeq([k \in 1..n |-> k - 1],
                  LAMBDA i : /\ i >= half
                             /\ i <= n - 1 - half
                             /\ \A j \in (i - half)..(i + half) :
                                    IF isMax THEN iloc(col, j) <= iloc(col, i)
                                    ELSE iloc(col, j) >= iloc(col, i))

\* abs(a - b) / a < pct / 100
RailwaySimilar(a, b, pct) == 100 * Abs(a - b) < pct * a

RailwayRecord(d, col, type, i) ==
    [type |-> type, timestamp |-> iloc(d.timestamp, i), price |-> iloc(col, i)]

\* for i in range(len(points) - 1): adjacent points of similar height
RailwayDoubleScan(d, col, points, type) ==
    LET hits == SelectSeq([k \in 1..(Len(points) - 1) |-> k],
                    LAMBDA k : RailwaySimilar(iloc(col, points[k]),
                                              iloc(col, points[k + 1]),
                                              RAILWAY_DOUBLE_PCT))
    IN  [m \in 1..Len(hits) |-> RailwayRecord(d, col, type, points[hits[m] + 1])]

railway_detect_double_patterns(d) ==
    IF NRows(d) < RAILWAY_MIN_BARS THEN <<>>
    ELSE IF ~d.has_atr THEN <<>>
    ELSE LET high_points == LastN(RailwayExtrema(d.high, TRUE), RAILWAY_DOUBLE_TAIL)
             low_points  == LastN(RailwayExtrema(d.low, FALSE), RAILWAY_DOUBLE_TAIL)
         IN  RailwayDoubleScan(d, d.high, high_points, "double_top")
             \o RailwayDoubleScan(d, d.low, low_points, "double_bottom")

\* for i in range(len(points) - 2): a strictly dominating head between
\* shoulders of similar height
RailwayHSScan(d, col, points, type, isTop) ==
    LET hits == SelectSeq([k \in 1..(Len(points) - 2) |-> k],
                    LAMBDA k :
                        LET left  == iloc(col, points[k])
                            head  == iloc(col, points[k + 1])
                            right == iloc(col, points[k + 2])
                        IN  /\ IF isTop THEN head > left /\ head > right
                               ELSE head < left /\ head < right
                            /\ RailwaySimilar(left, right, RAILWAY_HS_PCT))
    IN  [m \in 1..Len(hits) |-> RailwayRecord(d, col, type, points[hits[m] + 2])]

railway_detect_head_shoulder_patterns(d) ==
    IF NRows(d) < RAILWAY_MIN_BARS THEN <<>>
    ELSE LET high_points == LastN(RailwayExtrema(d.high, TRUE), RAILWAY_HS_TAIL)
             low_points  == LastN(RailwayExtrema(d.low, FALSE), RAILWAY_HS_TAIL)
         IN  RailwayHSScan(d, d.high, high_points, "head_shoulder_top", TRUE)
             \o RailwayHSScan(d, d.low, low_points, "head_shoulder_bottom", FALSE)

railway_find_enhanced_patterns(d) ==
    railway_detect_double_patterns(d) \o railway_detect_head_shoulder_patterns(d)

\* true_range.rolling(window=14).mean(): the railway monitor adds the ATR
\* column whatever the length of the frame; its detectors only test that the
\* column exists and is not all NaN, which holds from 14 rows on
railway_calculate_basic_indicators(d) ==
    [d EXCEPT !.has_atr = NRows(d) >= ATR_WINDOW]

-----------------------------------------------------------------------------
(* The ingestion handlers, as functions of the monitor's state             *)

\* the monitor's fields, read from the variables
Self ==
    [buf |-> kline_buffers, message_count |-> message_count,
     pattern_count |-> pattern_count, tasks |-> tasks,
     appended |-> appended, last_frame_len |-> last_frame_len]

\* self.kline_buffers[symbol].append(entry); a missing deque is created first
BufferAppend(S, entry) ==
    [S EXCEPT !.buf = [present |-> TRUE, bars |-> DequeAppend(S.buf.bars, entry)],
              !.appended = Append(S.appended, entry)]

\* EnhancedRealTimeMonitor.process_kline_data: append, count, and from 100
\* buffered bars on build the frame, compute the ATR, detect, and create one
\* analyze_pattern task per candidate
process_kline_data(S, t) ==
    LET S1 == [BufferAppend(S, Kline(t)) EXCEPT !.message_count = @ + 1]
        buffer_len == Len(S1.buf.bars)
    IN  IF buffer_len < MIN_BARS THEN S1
        ELSE LET frame == calculate_basic_indicators(BufferFrame(S1.buf.bars))
                 found == find_enhanced_patterns(frame)
             IN  [S1 EXCEPT !.pattern_count = @ + Len(found),
                            !.tasks = @ \o [k \in 1..Len(found) |->
                                               SignalData(Symbol, frame, found[k])],
                            !.last_frame_len = buffer_len]

\* EnhancedRealTimeMonitor.analyze_cached_data: below 100 bars it returns;
\* from 100 bars on it rebuilds the frame and stops at
\* `if not basic_indicators` (the truth value of a DataFrame raises, and the
\* handler's except swallows it), so no field of the monitor changes
analyze_cached_data(S) == S

\* one symbol's turn in fetch_latest_klines; klines is what
\* get_historical_klines returned ([] on failure)
fetch_latest_klines(S, latest, ok) ==
    LET current_cache_size == Len(S.buf.bars)
        incremental == current_cache_size >= buffer_size
        limit  == IF incremental THEN 1 ELSE buffer_size - current_cache_size
        klines == IF ok THEN get_historical_klines(latest, limit) ELSE <<>>
    IN  IF klines = <<>> THEN S
        ELSE IF incremental
        THEN LET last_cached  == S.buf.bars[Len(S.buf.bars)]
                 latest_kline == klines[1]
             IN  IF last_cached.kind # "kline" THEN S      \* KeyError, caught
                 ELSE IF latest_kline.time <= last_cached.time THEN S
                 ELSE analyze_cached_data(process_kline_data(S, latest_kline.time))
        ELSE analyze_cached_data(
                 [S EXCEPT !.buf = [present |-> TRUE,
                                    bars |-> DequeExtend(S.buf.bars, klines)],
                           !.appended = @ \o klines])

\* one symbol's turn in fetch_latest_klines_api: the second-newest bar is
\* the completed one.  Reading ['open_time'] of a last entry that is a kline
\* dict raises KeyError (caught, nothing appended).  Otherwise cache_data is
\* appended and process_kline_data appends the same bar again as a kline
\* dict; awaiting its None result raises, which is caught.
fetch_latest_klines_api(S, latest, ok) ==
    LET klines == IF ok THEN get_historical_klines(latest, 2) ELSE <<>>
    IN  IF Len(klines) < 2 THEN S
        ELSE LET completed_kline == klines[Len(klines) - 1]
                 cache_data == CacheData(completed_kline)
                 S0   == [S EXCEPT !.buf.present = TRUE]
                 bars == S0.buf.bars
             IN  IF bars = <<>>
                 THEN process_kline_data(BufferAppend(S0, cache_data), completed_kline.time)
                 ELSE IF bars[Len(bars)].kind = "kline" THEN S0   \* KeyError
                 ELSE IF bars[Len(bars)].time # cache_data.time
                 THEN process_kline_data(BufferAppend(S0, cache_data), completed_kline.time)
                 ELSE S0

\* start_monitoring's preload: deque(historical_data, maxlen=buffer_size);
\* the symbol is dropped when no history comes back
preload(S, latest, limit) ==
    LET historical_data == get_historical_klines(latest, limit)
    IN  IF historical_data = <<>> THEN S
        ELSE [S EXCEPT !.buf = [present |-> TRUE,
                                bars |-> DequeExtend(<<>>, historical_data)],
                       !.appended = historical_data]

\* MonitorApp._process_kline_data of the railway deployment, run on the
\* polling thread: asyncio.create_task finds no running loop there, so when
\* candidates are found the counter is raised and the first create_task
\* raises into the handler's except; no task is created
railway_process_kline_data(S, t) ==
    LET S1 == [BufferAppend(S, Kline(t)) EXCEPT !.message_count = @ + 1]
        buffer_len == Len(S1.buf.bars)
    IN  IF buffer_len < MIN_BARS THEN S1
        ELSE LET frame == railway_calculate_basic_indicators(BufferFrame(S1.buf.bars))
                 found == railway_find_enhanced_patterns(frame)
             IN  [S1 EXCEPT !.pattern_count = @ + Len(found),
                            !.last_frame_len = buffer_len]

-----------------------------------------------------------------------------
(* Specification SpecBuffer: bars arriving at one symbol's buffer          *)

ExtraFeeds == 3            \* direct calls made beyond buffer_size
MaxLag == 1                \* how many bars a delivered bar may lag behind
MaxTicks == 2              \* hours that pass in a scheduled run
MaxCalls == 3              \* fetch cycles of a scheduled run

MaxFeeds == buffer_size + ExtraFeeds

\* the direct call at which a late bar is delivered (0: never)
StalePoints == {0, 2, MIN_BARS, buffer_size + 1}

\* bars of history the exchange holds when a scheduled run starts
StartTimes == {MIN_BARS - 1, buffer_size - ExtraFeeds, PRELOAD_LIMIT + ExtraFeeds}

DirectDrivers ==
    {[mode |-> "direct", stale_at |-> a, lag |-> l, start |-> 0] :
        a \in StalePoints, l \in 0..MaxLag} \ 
    {[mode |-> "direct", stale_at |-> 0, lag |-> l, start |-> 0] : l \in 1..MaxLag}

ScheduleDrivers ==
    {[mode |-> "schedule", stale_at |-> 0, lag |-> 0, start |-> t] : t \in StartTimes}

BufferInit ==
    /\ monitor \in {"enhanced", "railway"}
    /\ driver \in IF monitor = "enhanced" THEN DirectDrivers \cup ScheduleDrivers
                  ELSE DirectDrivers
    /\ kline_buffers = [present |-> FALSE, bars |-> <<>>]
    /\ message_count = 0
    /\ pattern_count = 0
    /\ tasks = <<>>
    /\ now = driver.start
    /\ calls = 0
    /\ appended = <<>>
    /\ last_frame_len = 0
    /\ last_call = [op |-> "none"]
    /\ BufferOnly

\* the monitor's fields after a handler returned S
Becomes(S) ==
    /\ kline_buffers' = S.buf
    /\ message_count' = S.message_count
    /\ pattern_count' = S.pattern_count
    /\ tasks' = S.tasks
    /\ appended' = S.appended
    /\ last_frame_len' = S.last_frame_len

\* the open time of the bar the next direct call delivers: the next hour's
\* bar, or at the driver's stale point a bar that is not newer than the last
NextFeedTime ==
    IF calls + 1 = driver.stale_at THEN now - driver.lag ELSE now + 1

ProcessKlineData ==
    /\ monitor = "enhanced"
    /\ driver.mode = "direct"
    /\ calls < MaxFeeds
    /\ NextFeedTime >= 1
    /\ Becomes(process_kline_data(Self, NextFeedTime))
    /\ last_call' = [op |-> "process_kline_data"]
    /\ now' = Max2(now, NextFeedTime)
    /\ calls' = calls + 1
    /\ UNCHANGED <<monitor, driver>>
    /\ UNCHANGED <<detVars, btVars, rpVars, psVars, ckVars, serviceVars>>

RailwayProcessKlineData ==
    /\ monitor = "railway"
    /\ driver.mode = "direct"
    /\ calls < MaxFeeds
    /\ NextFeedTime >= 1
    /\ Becomes(railway_process_kline_data(Self, NextFeedTime))
    /\ last_call' = [op |-> "_process_kline_data"]
    /\ now' = Max2(now, NextFeedTime)
    /\ calls' = calls + 1
    /\ UNCHANGED <<monitor, driver>>
    /\ UNCHANGED <<detVars, btVars, rpVars, psVars, ckVars, serviceVars>>

\* the preload of start_monitoring (200 bars asked), or its retry loop
\* (buffer_size bars asked, appended one by one)
StartMonitoring ==
    /\ monitor = "enhanced"
    /\ driver.mode = "schedule"
    /\ calls = 0
    /\ ~kline_buffers.present
    /\ \E limit \in {Max2(PRELOAD_LIMIT, buffer_size), buffer_size} :
           Becomes(preload(Self, now, limit))
    /\ last_call' = [op |-> "start_monitoring"]
    /\ UNCHANGED <<monitor, driver, now, calls>>
    /\ UNCHANGED <<detVars, btVars, rpVars, psVars, ckVars, serviceVars>>

\* an hour passes: the exchange opens a new bar
Tick ==
    /\ driver.mode = "schedule"
    /\ now < driver.start + MaxTicks
    /\ now' = now + 1
    /\ UNCHANGED <<monitor, driver, kline_buffers, message_count, pattern_count,
                   tasks, calls, appended, last_frame_len, last_call>>
    /\ UNCHANGED <<detVars, btVars, rpVars, psVars, ckVars, serviceVars>>

FetchLatestKlines ==
    /\ monitor = "enhanced"
    /\ driver.mode = "schedule"
    /\ calls < MaxCalls
    /\ \E lag \in 0..MaxLag, ok \in BOOLEAN :
           Becomes(fetch_latest_klines(Self, now - lag, ok))
    /\ last_call' = [op |-> "fetch_latest_klines"]
    /\ calls' = calls + 1
    /\ UNCHANGED <<monitor, driver, now>>
    /\ UNCHANGED <<detVars, btVars, rpVars, psVars, ckVars, serviceVars>>

FetchLatestKlinesApi ==
    /\ monitor = "enhanced"
    /\ driver.mode = "schedule"
    /\ calls < MaxCalls
    /\ \E lag \in 0..MaxLag, ok \in BOOLEAN :
          /\ Becomes(fetch_latest_klines_api(Self, now - lag, ok))
          /\ last_call' = [op |-> "fetch_latest_klines_api",
                           klines |-> IF ok THEN get_historical_klines(now - lag, 2)
                                      ELSE <<>>,
                           before |-> Self]
    /\ calls' = calls + 1
    /\ UNCHANGED <<monitor, driver, now>>
    /\ UNCHANGED <<detVars, btVars, rpVars, psVars, ckVars, serviceVars>>

BufferNext ==
    \/ ProcessKlineData
    \/ RailwayProcessKlineData
    \/ StartMonitoring
    \/ Tick
    \/ FetchLatestKlines
    \/ FetchLatestKlinesApi

SpecBuffer == BufferInit /\ [][BufferNext]_bufVars

-----------------------------------------------------------------------------
(* Properties of the buffer                                                *)

Bars == kline_buffers.bars

\* C7: the bars of the symbol's buffer are in strictly increasing timestamp
\* order after any sequence of bar arrivals, on every ingestion path.
C7_BufferStrictlyIncreasing ==
    \A i \in 1..Len(Bars) : \A j \in 1..Len(Bars) :
        i < j => Bars[i].time < Bars[j].time

\* C8: the buffer never holds more than buffer_size bars, and eviction is
\* FIFO: the buffer is always the most recent (at most buffer_size) entries
\* appended, in the order they were appended.
C8_BufferBoundedFifo ==
    /\ Len(Bars) <= buffer_size
    /\ Bars = LastN(appended, buffer_size)

\* buffer_size + 1 bars were appended one by one to an empty buffer: the
\* first is gone, the last is present
C8_Witness ==
    /\ driver.mode = "direct"
    /\ calls = buffer_size + 1
    /\ Len(appended) = buffer_size + 1
    /\ Len(Bars) = buffer_size
    /\ \A k \in 1..Len(Bars) : Bars[k] # appended[1]
    /\ Bars[Len(Bars)] = appended[Len(appended)]

-----------------------------------------------------------------------------
(* The backtest evaluator: backtest_pattern of win_rate_test.py            *)

LOOKAHEAD == 48            \* future bars scanned after the confirmation bar
REWARD_RISK == 2           \* target = entry -/+ 2.0 * risk

\* a float that may be NaN: arithmetic on NaN gives NaN, and every
\* comparison with NaN is False
Num(v) == [nan |-> FALSE, v |-> v]
NaN == [nan |-> TRUE, v |-> 0]
FAdd(a, b) == IF a.nan \/ b.nan THEN NaN ELSE Num(a.v + b.v)
FSub(a, b) == IF a.nan \/ b.nan THEN NaN ELSE Num(a.v - b.v)
FScale(k, a) == IF a.nan THEN NaN ELSE Num(k * a.v)
FGe(a, b) == ~a.nan /\ ~b.nan /\ a.v >= b.v
FLe(a, b) == ~a.nan /\ ~b.nan /\ a.v <= b.v

IsTopPattern(pattern_type) == pattern_type \in {"double_top", "head_shoulder_top"}

\* a faulty variant: the stop placed at the bar's extreme, without the ATR
StopLoss_NoAtr(d, pattern_type, pattern_idx) ==
    IF IsTopPattern(pattern_type) THEN Num(iloc(d.high, pattern_idx))
    ELSE Num(iloc(d.low, pattern_idx))

\* stop_loss and target of a candidate confirmed at pattern_idx
StopLoss(d, pattern_type, pattern_idx) ==
    IF IsTopPattern(pattern_type)
    THEN FAdd(Num(iloc(d.high, pattern_idx)), iloc(d.atr, pattern_idx))
    ELSE FSub(Num(iloc(d.low, pattern_idx)), iloc(d.atr, pattern_idx))

Target(d, pattern_type, pattern_idx) ==
    LET entry_price == Num(iloc(d.close, pattern_idx))
        stop_loss   == StopLoss(d, pattern_type, pattern_idx)
    IN  IF IsTopPattern(pattern_type)
        THEN FSub(entry_price, FScale(REWARD_RISK, FSub(stop_loss, entry_price)))
        ELSE FAdd(entry_price, FScale(REWARD_RISK, FSub(entry_price, stop_loss)))

\* whether the bar at position i touches the stop / the target
BarHitsStop(d, pattern_type, stop_loss, i) ==
    IF IsTopPattern(pattern_type) THEN FGe(Num(iloc(d.high, i)), stop_loss)
    ELSE FLe(Num(iloc(d.low, i)), stop_loss)

BarHitsTarget(d, pattern_type, target, i) ==
    IF IsTopPattern(pattern_type) THEN FLe(Num(iloc(d.low, i)), target)
    ELSE FGe(Num(iloc(d.high, i)), target)

\* the body of the loop for one bar: the stop is tested first, the target
\* in the elif
\* (a faulty variant first, which tests the target before the stop)
BarOutcome_TargetFirst(d, pattern_type, stop_loss, target, i) ==
    IF BarHitsTarget(d, pattern_type, target, i) THEN "hit_target"
    ELSE IF BarHitsStop(d, pattern_type, stop_loss, i) THEN "hit_stop"
    ELSE "none"

BarOutcome(d, pattern_type, stop_loss, target, i) ==
    IF BarHitsStop(d, pattern_type, stop_loss, i) THEN "hit_stop"
    ELSE IF BarHitsTarget(d, pattern_type, target, i) THEN "hit_target"
    ELSE "none"

\* for ... in future_data.iterrows(), from position i to position last,
\* with a break at the first bar that touches a level
RECURSIVE ScanFuture(_, _, _, _, _, _)
ScanFuture(d, pattern_type, stop_loss, target, i, last) ==
    IF i > last THEN "none"
    ELSE LET outcome == BarOutcome(d, pattern_type, stop_loss, target, i)
         IN  IF outcome # "none" THEN outcome
             ELSE ScanFuture(d, pattern_type, stop_loss, target, i + 1, last)

\* no_action = not hit_stop and not hit_target
\* (a faulty variant first, which forgets the target)
NoAction_IgnoresTarget(hit_stop, hit_target) == ~hit_stop

NoAction(hit_stop, hit_target) == ~hit_stop /\ ~hit_target

backtest_pattern(d, pattern_type, pattern_idx) ==
    IF pattern_idx >= NRows(d) - LOOKAHEAD
    THEN [returned |-> TRUE, hit_stop |-> FALSE, hit_target |-> FALSE,
          stop_loss |-> NaN, target |-> NaN]
    ELSE LET stop_loss == StopLoss(d, pattern_type, pattern_idx)
             target    == Target(d, pattern_type, pattern_idx)
             \* df.iloc[pattern_idx+1 : pattern_idx+49]
             last      == Min2(pattern_idx + LOOKAHEAD, NRows(d) - 1)
             outcome   == ScanFuture(d, pattern_type, stop_loss, target,
                                     pattern_idx + 1, last)
             hit_stop   == outcome = "hit_stop"
             hit_target == outcome = "hit_target"
         IN  [returned |-> TRUE, hit_stop |-> hit_stop, hit_target |-> hit_target,
              no_action |-> NoAction(hit_stop, hit_target),
              stop_loss |-> stop_loss, target |-> target]

-----------------------------------------------------------------------------
(* Specification SpecBacktest: backtest_pattern on bounded frames          *)

LeadBars == 2              \* bars before the confirmation bar
ExtraFuture == 2           \* future bars beyond the scanned window

\* the confirmation bar: entry 100; with ATR 2 a short trade has its stop
\* at 105 and its target at 90, a long trade its stop at 95 and target at 110
ConfirmBar == [high |-> 103, low |-> 97, close |-> 100]
QuietBar == [high |-> 101, low |-> 99, close |-> 100]

\* another confirmation bar: a zero-range bar that closed at 100
DojiBar == [high |-> 100, low |-> 100, close |-> 100]

\* the bars an eventful hour can print: each touches a level exactly, both
\* levels, or stops one tick short of the stops
EventBars ==
    {[high |-> 105, low |-> 99, close |-> 102],
     [high |-> 101, low |-> 95, close |-> 98],
     [high |-> 110, low |-> 99, close |-> 104],
     [high |-> 101, low |-> 90, close |-> 96],
     [high |-> 110, low |-> 90, close |-> 100],
     [high |-> 104, low |-> 96, close |-> 100],
     QuietBar}

\* where, counted from the confirmation bar, the two eventful hours fall
EventSlots == {1, 2, LOOKAHEAD, LOOKAHEAD + 1}

PatternTypes == {"double_top", "double_bottom", "head_shoulder_top", "head_shoulder_bottom"}

BacktestFrame(p) ==
    LET n == LeadBars + 1 + p.future
        bar(k) == IF k = LeadBars + 1 THEN p.confirm
                  ELSE IF k = LeadBars + 1 + p.slot1 THEN p.bar1
                  ELSE IF k = LeadBars + 1 + p.slot2 THEN p.bar2
                  ELSE QuietBar
    IN  [high  |-> [k \in 1..n |-> bar(k).high],
         low   |-> [k \in 1..n |-> bar(k).low],
         close |-> [k \in 1..n |-> bar(k).close],
         atr   |-> [k \in 1..n |-> IF k = LeadBars + 1 THEN p.atr ELSE Num(2)]]

BacktestInputs ==
    [future : {LOOKAHEAD - 1, LOOKAHEAD, LOOKAHEAD + ExtraFuture},
     slot1 : EventSlots, slot2 : EventSlots,
     bar1 : EventBars, bar2 : EventBars,
     confirm : {ConfirmBar, DojiBar},
     atr : {Num(1), Num(2), NaN}]

BacktestInit ==
    /\ \E p \in {q \in BacktestInputs : q.slot1 < q.slot2} :
           bt_df = BacktestFrame(p)
    /\ bt_pattern \in [pattern_type : PatternTypes, pattern_idx : {LeadBars}]
    /\ bt_result = [returned |-> FALSE]
    /\ BacktestOnly

CallBacktestPattern ==
    /\ ~bt_result.returned
    /\ bt_result' = backtest_pattern(bt_df, bt_pattern.pattern_type,
                                     bt_pattern.pattern_idx)
    /\ UNCHANGED <<bt_df, bt_pattern>>
    /\ UNCHANGED <<detVars, bufVars, rpVars, psVars, ckVars, serviceVars>>

BacktestNext == CallBacktestPattern

SpecBacktest == BacktestInit /\ [][BacktestNext]_btVars

-----------------------------------------------------------------------------
(* Properties of the backtest                                              *)

\* bars that follow the confirmation bar in the frame
FutureBarCount == NRows(bt_df) - 1 - bt_pattern.pattern_idx

\* positions of the future bars backtest_pattern is to scan
ScanWindow == (bt_pattern.pattern_idx + 1)..(bt_pattern.pattern_idx + LOOKAHEAD)

TouchesStop(i) ==
    BarHitsStop(bt_df, bt_pattern.pattern_type,
                StopLoss(bt_df, bt_pattern.pattern_type, bt_pattern.pattern_idx), i)

TouchesTarget(i) ==
    BarHitsTarget(bt_df, bt_pattern.pattern_type,
                  Target(bt_df, bt_pattern.pattern_type, bt_pattern.pattern_idx), i)

BoolCount(b) == IF b THEN 1 ELSE 0

\* C9: for a candidate with at least 48 bars after its confirmation bar,
\* exactly one of hit_stop, hit_target and no_action is true in the outcome.
C9_ExactlyOneOutcome ==
    (bt_result.returned /\ FutureBarCount >= LOOKAHEAD)
    => BoolCount(bt_result.hit_stop) + BoolCount(bt_result.hit_target)
         + BoolCount(bt_result.no_action) = 1

\* a target was hit by a candidate with exactly 48 future bars
C9_Witness ==
    /\ bt_result.returned
    /\ FutureBarCount = LOOKAHEAD
    /\ bt_result.hit_target
    /\ ~bt_result.no_action

\* C10: the 48 bars after the confirmation bar are scanned in order and the
\* first bar that touches either level decides: the stop if that bar touches
\* the stop (also when it touches the target as well), else the target;
\* later bars change nothing, and with no touching bar neither flag is set.
C10_FirstBreachDecides ==
    (bt_result.returned /\ FutureBarCount >= LOOKAHEAD)
    => LET touching == {i \in ScanWindow : TouchesStop(i) \/ TouchesTarget(i)}
       IN  IF touching = {}
           THEN ~bt_result.hit_stop /\ ~bt_result.hit_target
           ELSE LET first == CHOOSE i \in touching : \A j \in touching : i <= j
                IN  /\ bt_result.hit_stop = TouchesStop(first)
                    /\ bt_result.hit_target = ~TouchesStop(first)

\* the first touching bar touches both levels at once and a later bar of the
\* window touches the target alone: the outcome is a stop
C10_Witness ==
    /\ bt_result.returned
    /\ FutureBarCount >= LOOKAHEAD
    /\ \E i \in ScanWindow : \E j \in ScanWindow :
           /\ i < j
           /\ TouchesStop(i) /\ TouchesTarget(i)
           /\ \A k \in ScanWindow : k < i => ~(TouchesStop(k) \/ TouchesTarget(k))
           /\ TouchesTarget(j) /\ ~TouchesStop(j)
    /\ bt_result.hit_stop
    /\ ~bt_result.hit_target

\* the levels were computed: the candidate is not within 48 bars of the end
LevelsComputed == bt_result.returned /\ FutureBarCount >= LOOKAHEAD

\* C11: entry is the close of the confirmation bar; a top pattern has
\* stop = high + ATR and target = entry - 2 * (stop - entry), a bottom
\* pattern stop = low - ATR and target = entry + 2 * (entry - stop), so the
\* target lies twice as far from the entry as the stop, on the other side.
\* (An undefined ATR leaves both levels undefined.)
C11_StopAndTargetLevels ==
    LevelsComputed
    => LET idx   == bt_pattern.pattern_idx
           entry == iloc(bt_df.close, idx)
           atr   == iloc(bt_df.atr, idx)
           stop  == bt_result.stop_loss
           tgt   == bt_result.target
       IN  IF atr.nan THEN stop.nan /\ tgt.nan
           ELSE /\ ~stop.nan /\ ~tgt.nan
                /\ IF bt_pattern.pattern_type \in {"double_top", "head_shoulder_top"}
                   THEN /\ stop.v = iloc(bt_df.high, idx) + atr.v
                        /\ tgt.v = entry - 2 * (stop.v - entry)
                   ELSE /\ stop.v = iloc(bt_df.low, idx) - atr.v
                        /\ tgt.v = entry + 2 * (entry - stop.v)
                /\ tgt.v - entry = 2 * (entry - stop.v)

\* levels were computed for a bottom pattern with a defined ATR on a bar
\* whose low lies below its close
C11_Witness ==
    /\ LevelsComputed
    /\ bt_pattern.pattern_type = "double_bottom"
    /\ ~bt_result.stop_loss.nan
    /\ bt_result.stop_loss.v < iloc(bt_df.low, bt_pattern.pattern_idx)
    /\ iloc(bt_df.low, bt_pattern.pattern_idx) < iloc(bt_df.close, bt_pattern.pattern_idx)
    /\ bt_result.target.v > iloc(bt_df.close, bt_pattern.pattern_idx)

-----------------------------------------------------------------------------
(* The win-rate report: analyze_success_rate of win_rate_test.py           *)

Indicators ==
    {"trend_uptrend", "trend_downtrend", "trend_consolidation", "trend_ok",
     "macd_divergence", "rsi_divergence", "volume_divergence", "candle_pattern"}

MainIndicators == {"macd_divergence", "rsi_divergence", "volume_divergence", "trend_ok"}

ImportantCombinations ==
    {{"trend_ok", "macd_divergence"}, {"trend_ok", "rsi_divergence"},
     {"macd_divergence", "rsi_divergence"}}

PRINT_MIN_SAMPLES == 5     \* len(combo_data) >= 5
REPORT_MIN_SAMPLES == 5    \* combo_count > 5
REPORT_MAX_FLAGS == 3      \* range(2, min(4, len(indicators) + 1))

\* a / b if b > 0 else 0, kept as a fraction
Rate(a, b) == IF b > 0 THEN [num |-> a, den |-> b] ELSE [num |-> 0, den |-> 1]

\* rows of a slice (a set of row numbers) with the given column true
CountTrue(R, I, col) == Cardinality({i \in I : R[i][col]})

\* the dict a slice contributes to report_df: 'Win Rate' is
\* target_hit / (count - stop_hit)
SliceStats(R, I) ==
    [Count |-> Cardinality(I),
     WinRate |-> Rate(CountTrue(R, I, "hit_target"),
                      Cardinality(I) - CountTrue(R, I, "hit_stop"))]

\* rows on which every flag of the combination is true
RowsWith(R, I, flags) == {i \in I : flags \subseteq R[i].flags}

analyze_success_rate(R) ==
    LET all == 1..Len(R)
        first_stop(I) == Cardinality({i \in I : R[i].hit_stop /\ ~R[i].hit_target})
        success(I)    == Cardinality({i \in I : R[i].hit_target})
        of_type(t)    == {i \in all : R[i].pattern_type = t}
        types         == {R[i].pattern_type : i \in all}
    IN  [returned |-> TRUE,
         \* overall_stats['Win Rate']
         Overall |-> [Count |-> Len(R),
                      WinRate |-> Rate(CountTrue(R, all, "hit_target"),
                                       CountTrue(R, all, "hit_target") + first_stop(all))],
         \* the win rate printed per pattern type
         pattern_win_rate |->
             [t \in types |-> Rate(success(of_type(t)),
                                   success(of_type(t)) + first_stop(of_type(t)))],
         \* best_combos of each pattern type, before the five best are printed:
         \* 2 to 4 of the main indicators, at least 5 samples, win rate >= 50%
         best_combos |->
             {x \in [pattern_type : types, flags : SUBSET MainIndicators] :
                 LET I == RowsWith(R, of_type(x.pattern_type), x.flags)
                 IN  /\ Cardinality(x.flags) >= 2
                     /\ Cardinality(I) >= PRINT_MIN_SAMPLES
                     /\ 2 * success(I) >= Cardinality(I)},
         \* single_indicator_stats: the '<indicator>_True' / '_False' rows
         single |->
             {[indicator |-> x.indicator, value |-> x.value,
               stats |-> SliceStats(R, {i \in all : (x.indicator \in R[i].flags) = x.value})] :
                 x \in {x \in [indicator : Indicators, value : BOOLEAN] :
                          \E i \in all : (x.indicator \in R[i].flags) = x.value}},
         \* combo_stats: all indicators true and the important combinations
         \* when they have a row at all, every other combination of 2 or 3
         \* indicators when it has more than 5 rows
         combos |->
             {[flags |-> c, stats |-> SliceStats(R, RowsWith(R, all, c))] :
                 c \in {c \in ImportantCombinations \cup {Indicators} :
                          RowsWith(R, all, c) # {}}}
             \cup
             {[flags |-> c, stats |-> SliceStats(R, RowsWith(R, all, c))] :
                 c \in {c \in SUBSET Indicators :
                          /\ Cardinality(c) >= 2
                          /\ Cardinality(c) <= REPORT_MAX_FLAGS
                          /\ Cardinality(RowsWith(R, all, c)) > REPORT_MIN_SAMPLES}}]

-----------------------------------------------------------------------------
(* Specification of the report: analyze_success_rate on a table of results  *)

MaxPer == 3    \* rows of each outcome in the varied slice

\* one row of results_df as main() builds it from backtest_pattern's result
ResultRow(type, outcome, flags) ==
    [pattern_type |-> type, flags |-> flags,
     hit_stop |-> outcome = "stop", hit_target |-> outcome = "target",
     no_action |-> outcome = "none"]

Repeat(row, n) == [i \in 1..n |-> row]

\* flag sets a double top can carry: the three trend flags exclude each other
\* and trend_ok of a top needs the downtrend
TopFlagSets ==
    {{"macd_divergence", "rsi_divergence"},
     {"trend_downtrend", "trend_ok", "macd_divergence", "rsi_divergence"},
     {"trend_downtrend", "trend_ok", "volume_divergence", "candle_pattern"},
     {"trend_consolidation", "macd_divergence", "rsi_divergence",
      "volume_divergence", "candle_pattern"}}

BackgroundRows ==
    <<ResultRow("double_bottom", "target", {"trend_uptrend", "trend_ok"}),
      ResultRow("double_bottom", "stop", {"trend_uptrend", "trend_ok"}),
      ResultRow("double_bottom", "none", {"trend_consolidation"})>>

ReportInputs ==
    {BackgroundRows \o Repeat(ResultRow("double_top", "target", f), nt)
                    \o Repeat(ResultRow("double_top", "stop", f), ns)
                    \o Repeat(ResultRow("double_top", "none", f), nn) :
        f \in TopFlagSets, nt \in 0..MaxPer, ns \in 0..MaxPer, nn \in 0..MaxPer}

ReportInit ==
    /\ results_df \in ReportInputs
    /\ report = [returned |-> FALSE]
    /\ ReportOnly

CallAnalyzeSuccessRate ==
    /\ ~report.returned
    /\ report' = analyze_success_rate(results_df)
    /\ UNCHANGED results_df
    /\ UNCHANGED <<detVars, bufVars, btVars, psVars, ckVars, serviceVars>>

ReportNext == CallAnalyzeSuccessRate

SpecReport == ReportInit /\ [][ReportNext]_rpVars

\* the claimed figure of a slice: N / (N + M)
TargetCount(I) == Cardinality({i \in I : results_df[i].hit_target})
FirstStopCount(I) ==
    Cardinality({i \in I : results_df[i].hit_stop /\ ~results_df[i].hit_target})
SameRate(a, b) == a.num * b.den = b.num * a.den
IsDecidedRate(r, I) ==
    SameRate(r, Rate(TargetCount(I), TargetCount(I) + FirstStopCount(I)))
AllRows == 1..Len(results_df)

\* C12: every win rate of the report (overall, per pattern type, per indicator,
\* per indicator combination) is N / (N + M) of its slice, N the rows with
\* hit_target and M the rows with hit_stop and not hit_target, so no_action rows
\* do not move it.
C12_WinRateExcludesNoAction ==
    report.returned
    => /\ IsDecidedRate(report.Overall.WinRate, AllRows)
       /\ \A t \in DOMAIN report.pattern_win_rate :
             IsDecidedRate(report.pattern_win_rate[t],
                           {i \in AllRows : results_df[i].pattern_type = t})
       /\ \A x \in report.single :
             IsDecidedRate(x.stats.WinRate,
                           {i \in AllRows : (x.indicator \in results_df[i].flags) = x.value})
       /\ \A c \in report.combos :
             IsDecidedRate(c.stats.WinRate,
                           {i \in AllRows : c.flags \subseteq results_df[i].flags})

\* the part of C12 the code does satisfy: the overall and per-pattern figures
C12_OverallAndPatternRates ==
    report.returned
    => /\ IsDecidedRate(report.Overall.WinRate, AllRows)
       /\ \A t \in DOMAIN report.pattern_win_rate :
             IsDecidedRate(report.pattern_win_rate[t],
                           {i \in AllRows : results_df[i].pattern_type = t})

SampleCount(flags) ==
    Cardinality({i \in AllRows : flags \subseteq results_df[i].flags})

\* C13: the combination breakdown covers combinations of 2, 3 and 4 flags, and
\* a combination is in the report exactly when at least 5 results have all of
\* its flags true.
C13_CombinationsReportedIffFiveSamples ==
    report.returned
    => \A c \in SUBSET Indicators :
          Cardinality(c) \in 2..4
          => ((\E x \in report.combos : x.flags = c) <=> SampleCount(c) >= 5)

-----------------------------------------------------------------------------
(* The corroboration checks of the live monitor                            *)
(*                                                                         *)
(* The indicator columns (ema21, ema55, ema144, macd, rsi) hold floats: a  *)
(* cell is Num(v) or NaN.  has_indicators says the columns are in the      *)
(* frame ('ema21' in df.columns).                                          *)

TREND_MIN_IDX == 50        \* idx < 50
MIN_STRENGTH_NUM == 1      \* DIVERGENCE_CONFIG[...]['min_strength'] = 0.1 ...
MIN_STRENGTH_DEN == 20     \* ... * 0.5 = 1 / 20

\* abs(b - a) / a < min_strength * 0.5; a division by a = 0 yields inf or nan,
\* which is not below the threshold
ChangeBelowMinStrength(a, b) ==
    a > 0 /\ MIN_STRENGTH_DEN * Abs(b - a) < MIN_STRENGTH_NUM * a

\* 'top' in pattern_type.lower()
HasTop(pattern_type) == pattern_type \in {"double_top", "head_shoulder_top"}

\* a faulty variant: an undefined EMA compares as not greater and not smaller
check_trend_status_NoNaNCheck(d, idx) ==
    IF idx < TREND_MIN_IDX \/ ~d.has_indicators THEN "insufficient_data"
    ELSE IF idx >= NRows(d) THEN "error"
    ELSE LET ema21 == iloc(d.ema21, idx)
             ema55 == iloc(d.ema55, idx)
         IN  IF ~ema21.nan /\ ~ema55.nan /\ ema21.v > ema55.v THEN "uptrend"
             ELSE IF ~ema21.nan /\ ~ema55.nan /\ ema21.v < ema55.v THEN "downtrend"
             ELSE "sideways"

\* df.iloc[idx] past the end raises IndexError, caught: 'error'
check_trend_status(d, idx) ==
    IF idx < TREND_MIN_IDX \/ ~d.has_indicators THEN "insufficient_data"
    ELSE IF idx >= NRows(d) THEN "error"
    ELSE LET ema21 == iloc(d.ema21, idx)
             ema55 == iloc(d.ema55, idx)
         IN  IF ema21.nan \/ ema55.nan THEN "insufficient_data"
             ELSE IF ema21.v > ema55.v THEN "uptrend"
             ELSE IF ema21.v < ema55.v THEN "downtrend"
             ELSE "sideways"

\* the direction test shared by the three divergence checks
Diverges(pattern_type, price1, price2, ind1, ind2) ==
    IF HasTop(pattern_type) THEN price2 > price1 /\ ind2 < ind1
    ELSE price2 < price1 /\ ind2 > ind1

\* a missing column or idx1 past the end raises, caught: False
check_macd_divergence(d, pattern_type, idx1, idx2) ==
    IF idx2 >= NRows(d) \/ idx1 < 0 THEN FALSE
    ELSE IF idx1 >= NRows(d) \/ ~d.has_indicators THEN FALSE
    ELSE LET price1 == iloc(d.close, idx1)
             price2 == iloc(d.close, idx2)
             macd1  == iloc(d.macd, idx1)
             macd2  == iloc(d.macd, idx2)
         IN  IF macd1.nan \/ macd2.nan THEN FALSE
             ELSE IF ChangeBelowMinStrength(price1, price2) THEN FALSE
             ELSE Diverges(pattern_type, price1, price2, macd1.v, macd2.v)

\* the threshold is on abs(rsi2 - rsi1), in RSI points, not on the price
check_rsi_divergence(d, pattern_type, idx1, idx2) ==
    IF idx2 >= NRows(d) \/ idx1 < 0 THEN FALSE
    ELSE IF idx1 >= NRows(d) \/ ~d.has_indicators THEN FALSE
    ELSE LET price1 == iloc(d.close, idx1)
             price2 == iloc(d.close, idx2)
             rsi1   == iloc(d.rsi, idx1)
             rsi2   == iloc(d.rsi, idx2)
         IN  IF rsi1.nan \/ rsi2.nan THEN FALSE
             ELSE IF MIN_STRENGTH_DEN * Abs(rsi2.v - rsi1.v) < MIN_STRENGTH_NUM THEN FALSE
             ELSE Diverges(pattern_type, price1, price2, rsi1.v, rsi2.v)

\* the threshold is on abs(vol2 - vol1) / vol1 (0 when vol1 <= 0)
check_volume_divergence(d, pattern_type, idx1, idx2) ==
    IF idx2 >= NRows(d) \/ idx1 < 0 THEN FALSE
    ELSE IF idx1 >= NRows(d) THEN FALSE
    ELSE LET price1 == iloc(d.close, idx1)
             price2 == iloc(d.close, idx2)
             vol1   == iloc(d.volume, idx1)
             vol2   == iloc(d.volume, idx2)
         IN  IF vol1 <= 0 \/ ChangeBelowMinStrength(vol1, vol2) THEN FALSE
             ELSE Diverges(pattern_type, price1, price2, vol1, vol2)

\* a faulty variant: no test of the zero range, the doji rule written as
\* body_size <= 0.1 * total_range
check_candle_pattern_FlatIsDoji(d, idx) ==
    IF idx < 1 \/ idx >= NRows(d) THEN "none"
    ELSE LET open_price == iloc(d.open, idx)
             close      == iloc(d.close, idx)
             prev_open  == iloc(d.open, idx - 1)
             prev_close == iloc(d.close, idx - 1)
             body_size  == Abs(close - open_price)
             total_range == iloc(d.high, idx) - iloc(d.low, idx)
         IN  IF 10 * body_size <= total_range THEN "doji"
             ELSE IF /\ close > open_price /\ prev_close < prev_open
                     /\ open_price < prev_close /\ close > prev_open
                     /\ body_size > Abs(prev_close - prev_open)
                  THEN "bullish_engulfing"
             ELSE IF /\ close < open_price /\ prev_close > prev_open
                     /\ open_price > prev_close /\ close < prev_open
                     /\ body_size > Abs(prev_close - prev_open)
                  THEN "bearish_engulfing"
             ELSE "none"

check_candle_pattern(d, idx) ==
    IF idx < 1 \/ idx >= NRows(d) THEN "none"
    ELSE LET open_price == iloc(d.open, idx)
             high       == iloc(d.high, idx)
             low        == iloc(d.low, idx)
             close      == iloc(d.close, idx)
             prev_open  == iloc(d.open, idx - 1)
             prev_close == iloc(d.close, idx - 1)
             body_size    == Abs(close - open_price)
             upper_shadow == high - Max2(open_price, close)
             lower_shadow == Min2(open_price, close) - low
             total_range  == high - low
             prev_body    == Abs(prev_close - prev_open)
             \* body_size / total_range < 0.1
             small_body   == IF total_range > 0 THEN 10 * body_size < total_range
                             ELSE TRUE
         IN  IF total_range = 0 THEN "none"
             ELSE IF small_body THEN "doji"
             ELSE IF lower_shadow >= 2 * body_size /\ 2 * upper_shadow <= body_size
                  THEN (IF close > open_price THEN "hammer" ELSE "hanging_man")
             ELSE IF upper_shadow >= 2 * body_size /\ 2 * lower_shadow <= body_size
                  THEN (IF close < open_price THEN "shooting_star" ELSE "inverted_hammer")
             ELSE IF /\ close > open_price /\ prev_close < prev_open
                     /\ open_price < prev_close /\ close > prev_open
                     /\ body_size > prev_body
                  THEN "bullish_engulfing"
             ELSE IF /\ close < open_price /\ prev_close > prev_open
                     /\ open_price > prev_close /\ close < prev_open
                     /\ body_size > prev_body
                  THEN "bearish_engulfing"
             ELSE "none"

-----------------------------------------------------------------------------
(* One analysis pass: process_kline_data from the length gate on, the      *)
(* analyze_pattern tasks it creates and their webhook deliveries           *)
(*                                                                         *)
(* The values of the ATR, EMA, MACD and RSI columns come from the ta       *)
(* library; they are an input of the pass (pass_lib), undefined during     *)
(* each indicator's warm-up rows.                                          *)

RETRY_ATTEMPTS == 5        \* WEBHOOK_CONFIG['retry_attempts']

\* df['atr'] = ta.volatility.average_true_range(...), on 100 bars or more
calculate_basic_indicators_ta(d, lib) ==
    IF NRows(d) < MIN_BARS THEN d
    ELSE [d EXCEPT !.atr = lib.atr, !.has_atr = TRUE]

\* a faulty variant: the indicator columns are computed on any length
calculate_indicators_AnyLength(d, lib) ==
    [d EXCEPT !.atr = lib.atr, !.has_atr = TRUE,
              !.ema21 = lib.ema21, !.ema55 = lib.ema55, !.ema144 = lib.ema144,
              !.macd = lib.macd, !.rsi = lib.rsi, !.has_indicators = TRUE]

calculate_indicators(d, lib) ==
    IF NRows(d) < MIN_BARS THEN d
    ELSE [calculate_basic_indicators_ta(d, lib)
             EXCEPT !.ema21 = lib.ema21, !.ema55 = lib.ema55, !.ema144 = lib.ema144,
                    !.macd = lib.macd, !.rsi = lib.rsi, !.has_indicators = TRUE]

\* the indices the divergence checks compare: the two extrema of a double
\* pattern, head and right shoulder of a head-and-shoulders
DivergenceIdx1(pattern) ==
    IF pattern.type \in {"double_top", "double_bottom"} THEN pattern.idx1
    ELSE pattern.head_idx

DivergenceIdx2(pattern) ==
    IF pattern.type \in {"double_top", "double_bottom"} THEN pattern.idx2
    ELSE pattern.right_shoulder_idx

\* the SignalData analyze_pattern builds and hands to send_signal_to_webhook
analyze_pattern(symbol, d, pattern) ==
    [symbol            |-> symbol,
     timestamp         |-> iloc(d.timestamp, pattern.pattern_idx),
     price             |-> iloc(d.close, pattern.pattern_idx),
     pattern_type      |-> pattern.type,
     trend_status      |-> check_trend_status(d, pattern.pattern_idx),
     macd_divergence   |-> check_macd_divergence(d, pattern.type,
                               DivergenceIdx1(pattern), DivergenceIdx2(pattern)),
     rsi_divergence    |-> check_rsi_divergence(d, pattern.type,
                               DivergenceIdx1(pattern), DivergenceIdx2(pattern)),
     volume_divergence |-> check_volume_divergence(d, pattern.type,
                               DivergenceIdx1(pattern), DivergenceIdx2(pattern)),
     candle_pattern    |-> check_candle_pattern(d, pattern.pattern_idx)]

\* a faulty variant: a validation step that drops uncorroborated signals
SendCalls_Validated(signal) ==
    IF signal.trend_status = "insufficient_data"
       \/ (~signal.macd_divergence /\ ~signal.rsi_divergence
           /\ ~signal.volume_divergence)
    THEN 0 ELSE 1

\* await self.send_signal_to_webhook(signal): once, whatever the signal holds
SendCalls(signal) == 1

\* a faulty variant: the full indicators are computed on every pass
NeedsFullIndicators_Always(pats) == TRUE

\* if patterns:
NeedsFullIndicators(pats) == pats # <<>>

\* the task asyncio.create_task(self.analyze_pattern(symbol, df, pattern)) makes
CreateTask(pattern) ==
    [pattern |-> pattern, state |-> "created", signals |-> <<>>,
     send_calls |-> 0, posts |-> 0, delivered |-> FALSE]

\* process_kline_data, lines 1516-1568: what it leaves in df, the tasks it
\* creates and the order of its steps
process_pass(d, lib) ==
    IF NRows(d) < MIN_BARS
    THEN [df |-> d, tasks |-> <<>>, events |-> <<[op |-> "skip"]>>]
    ELSE LET d1   == calculate_basic_indicators_ta(d, lib)
             pats == find_enhanced_patterns(d1)
             head == <<[op |-> "calculate_basic_indicators"],
                       [op |-> "find_enhanced_patterns", returned |-> pats]>>
         IN  IF NeedsFullIndicators(pats)
             THEN [df     |-> calculate_indicators(d1, lib),
                   tasks  |-> [k \in 1..Len(pats) |-> CreateTask(pats[k])],
                   events |-> head \o <<[op |-> "calculate_indicators"]>>
                                   \o [k \in 1..Len(pats) |-> [op |-> "create_task"]]]
             ELSE [df |-> d1, tasks |-> <<>>, events |-> head]

\* one requests.post of send_signal_to_webhook: status 200 ends the loop, a
\* failure sleeps and retries until retry_attempts posts were made
AfterPost(task, ok) ==
    [task EXCEPT !.posts = @ + 1,
                 !.delivered = ok,
                 !.state = IF ok \/ task.posts + 1 >= RETRY_ATTEMPTS
                           THEN "done" ELSE "sleeping"]

-----------------------------------------------------------------------------
(* Specification of the analysis pass                                      *)

\* the columns the library returns for a frame of n bars
LibColumns(n, atr, env) ==
    [atr    |-> [k \in 1..n |-> IF k - 1 < ATR_WINDOW - 1 THEN 0 ELSE atr],
     ema21  |-> [k \in 1..n |-> IF k - 1 < 20 THEN NaN ELSE Num(100 + env.ema)],
     ema55  |-> [k \in 1..n |-> IF k - 1 < 54 THEN NaN ELSE Num(100)],
     ema144 |-> [k \in 1..n |-> IF k - 1 < 143 THEN NaN ELSE Num(100)],
     macd   |-> [k \in 1..n |-> IF k - 1 < 33 THEN NaN ELSE Num(env.slope * (k - 1))],
     rsi    |-> [k \in 1..n |-> IF k - 1 < 13 THEN NaN
                                ELSE Num(50 + env.slope * ((k - 1) \div 4))]]

\* the frame built from the buffer: no indicator column yet
RawFrame(p) ==
    [has_indicators |-> FALSE, ema21 |-> <<>>, ema55 |-> <<>>, ema144 |-> <<>>,
     macd |-> <<>>, rsi |-> <<>>]
    @@ [MakeFrame(p) EXCEPT !.atr = [k \in 1..p.n |-> 0], !.has_atr = FALSE]

LibEnvs == {[ema |-> e, slope |-> m] : e \in {0 - 1, 0, 1}, m \in {0 - 1, 1}}

PassInputs ==
    { [n |-> n, heights |-> <<a, MaxHeight, c>> \o TailHeights(t),
       atr |-> 2, dir |-> m, has_atr |-> FALSE]
      : a \in {0, MaxHeight - 2}, c \in {0, MaxHeight - 2}, t \in {0, 2},
        m \in {"up", "down"}, n \in {MIN_BARS - 1, MIN_BARS} }

PassInit ==
    /\ \E p \in PassInputs, env \in LibEnvs :
          /\ pass_df = RawFrame(p)
          /\ pass_lib = LibColumns(p.n, p.atr, env)
    /\ pass_events = <<>>
    /\ pass_tasks = <<>>
    /\ PassOnly

ProcessKlineDataPass ==
    /\ pass_events = <<>>
    /\ LET r == process_pass(pass_df, pass_lib)
       IN  /\ pass_df' = r.df
           /\ pass_tasks' = r.tasks
           /\ pass_events' = r.events
    /\ UNCHANGED pass_lib
    /\ UNCHANGED <<detVars, bufVars, btVars, rpVars, ckVars, serviceVars>>

\* a task runs from its start to the result of its first post; the tasks start
\* in creation order
RunAnalyzePattern ==
    /\ \E k \in 1..Len(pass_tasks), ok \in BOOLEAN :
          /\ pass_tasks[k].state = "created"
          /\ \A j \in 1..(k - 1) : pass_tasks[j].state # "created"
          /\ LET signal == analyze_pattern(Symbol, pass_df, pass_tasks[k].pattern)
                 sent   == [pass_tasks[k] EXCEPT !.signals = Append(@, signal),
                                                 !.send_calls = @ + SendCalls(signal)]
             IN  pass_tasks' =
                   [pass_tasks EXCEPT ![k] = IF sent.send_calls > pass_tasks[k].send_calls
                                             THEN AfterPost(sent, ok)
                                             ELSE [sent EXCEPT !.state = "done"]]
    /\ UNCHANGED <<pass_df, pass_lib, pass_events>>
    /\ UNCHANGED <<detVars, bufVars, btVars, rpVars, ckVars, serviceVars>>

\* after asyncio.sleep(retry_delay) the delivery posts again
RetryPost ==
    /\ \E k \in 1..Len(pass_tasks), ok \in BOOLEAN :
          /\ pass_tasks[k].state = "sleeping"
          /\ pass_tasks' = [pass_tasks EXCEPT ![k] = AfterPost(pass_tasks[k], ok)]
    /\ UNCHANGED <<pass_df, pass_lib, pass_events>>
    /\ UNCHANGED <<detVars, bufVars, btVars, rpVars, ckVars, serviceVars>>

PassNext ==
    \/ ProcessKlineDataPass
    \/ RunAnalyzePattern
    \/ RetryPost

SpecPass == PassInit /\ [][PassNext]_psVars

-----------------------------------------------------------------------------
(* Properties of the analysis pass                                         *)

PassDone == pass_events # <<>>

\* the candidates the detector returned in this pass
PassCandidates ==
    IF \E i \in 1..Len(pass_events) : pass_events[i].op = "find_enhanced_patterns"
    THEN LET i == CHOOSE i \in 1..Len(pass_events) :
                     pass_events[i].op = "find_enhanced_patterns"
         IN  pass_events[i].returned
    ELSE <<>>

TaskHasRun(k) == pass_tasks[k].state # "created"

Uncorroborated(signal) ==
    /\ signal.trend_status = "insufficient_data"
    /\ ~signal.macd_divergence
    /\ ~signal.rsi_divergence
    /\ ~signal.volume_divergence
    /\ signal.candle_pattern = "none"

\* C14: in one pass every candidate the detector returned gets one
\* analyze_pattern task, which builds exactly one Signal and calls
\* send_signal_to_webhook exactly once for it, whatever the corroboration
\* values are and whether or not the delivery succeeds.
C14_OneSignalOneSendPerCandidate ==
    PassDone
    => /\ Len(pass_tasks) = Len(PassCandidates)
       /\ \A k \in 1..Len(pass_tasks) :
            LET task == pass_tasks[k]
            IN  /\ task.pattern = PassCandidates[k]
                /\ task.send_calls <= 1
                /\ Len(task.signals) <= 1
                /\ TaskHasRun(k)
                   => /\ task.send_calls = 1
                      /\ task.signals = <<analyze_pattern(Symbol, pass_df, task.pattern)>>
                      /\ task.posts \in 1..RETRY_ATTEMPTS
                /\ task.delivered => task.state = "done"

\* a pass with two candidates or more whose tasks all ended, one of them for an
\* uncorroborated signal whose delivery failed on every attempt
C14_Witness ==
    /\ PassDone
    /\ Len(pass_tasks) >= 2
    /\ \A k \in 1..Len(pass_tasks) :
          pass_tasks[k].state = "done" /\ pass_tasks[k].send_calls = 1
    /\ \E k \in 1..Len(pass_tasks) :
          /\ ~pass_tasks[k].delivered
          /\ pass_tasks[k].posts = RETRY_ATTEMPTS
          /\ Uncorroborated(pass_tasks[k].signals[1])

EventIndex(name) == {i \in 1..Len(pass_events) : pass_events[i].op = name}

\* C19: in a pass on 100 bars or more the ATR is computed before detection
\* runs; the full indicator set is computed in the pass exactly when detection
\* returned a candidate, and then before any task is created, so before any
\* corroboration check reads it.
C19_AtrEagerIndicatorsLazy ==
    (PassDone /\ NRows(pass_df) >= MIN_BARS)
    => /\ Len(pass_events) >= 2
       /\ pass_events[1].op = "calculate_basic_indicators"
       /\ pass_events[2].op = "find_enhanced_patterns"
       /\ pass_df.has_atr
       /\ (EventIndex("calculate_indicators") # {}) <=> (PassCandidates # <<>>)
       /\ pass_df.has_indicators <=> (PassCandidates # <<>>)
       /\ \A i \in EventIndex("calculate_indicators"), j \in EventIndex("create_task") :
             2 < i /\ i < j
       /\ Cardinality(EventIndex("calculate_indicators")) <= 1
       /\ pass_tasks # <<>> => pass_df.has_indicators

\* a pass on 100 bars with candidates, one of whose tasks read a defined trend
C19_Witness ==
    /\ PassDone
    /\ NRows(pass_df) >= MIN_BARS
    /\ pass_df.has_indicators
    /\ \E k \in 1..Len(pass_tasks) :
          /\ TaskHasRun(k)
          /\ pass_tasks[k].signals[1].trend_status \in {"uptrend", "downtrend", "sideways"}

\* a pass on 100 bars without any candidate
C19_NoCandidatePass ==
    /\ PassDone
    /\ NRows(pass_df) >= MIN_BARS
    /\ PassCandidates = <<>>

-----------------------------------------------------------------------------
(* The corroboration checks of the backtester (win_rate_test.py)           *)

FGt(a, b) == ~a.nan /\ ~b.nan /\ a.v > b.v

\* check_trend: an index past the end or a missing column raises
bt_check_trend(d, pattern_idx) ==
    IF pattern_idx >= NRows(d) \/ ~d.has_indicators THEN "raise"
    ELSE LET ema21  == iloc(d.ema21, pattern_idx)
             ema55  == iloc(d.ema55, pattern_idx)
             ema144 == iloc(d.ema144, pattern_idx)
         IN  IF FGt(ema21, ema55) /\ FGt(ema55, ema144) THEN "uptrend"
             ELSE IF FGt(ema55, ema21) /\ FGt(ema144, ema55) THEN "downtrend"
             ELSE "consolidation"

\* check_macd_divergence, check_rsi_divergence and check_volume_divergence of
\* the backtester are the same code on the column ind: the prices are the highs
\* (tops) or lows (bottoms), the indicator is measured from its lowest
\* (highest) value between the two indices (idxmin / idxmax skip NaN and raise
\* when every value is NaN), and there is no minimum strength
bt_check_divergence(d, ind, pattern_type, pattern_idx1, pattern_idx2) ==
    LET start_idx == Min2(pattern_idx1, pattern_idx2)
        end_idx   == Max2(pattern_idx1, pattern_idx2)
        defined   == {iloc(ind, j).v : j \in {j \in start_idx..end_idx : ~iloc(ind, j).nan}}
        ind1      == iloc(ind, pattern_idx1)
        ind2      == iloc(ind, pattern_idx2)
    IN  IF defined = {} THEN [raised |-> TRUE, value |-> FALSE]
        ELSE IF pattern_type \in {"double_top", "head_shoulder_top"}
        THEN LET ind_low == CHOOSE v \in defined : \A w \in defined : v <= w
             IN  [raised |-> FALSE,
                  value  |-> /\ iloc(d.high, pattern_idx2) > iloc(d.high, pattern_idx1)
                             /\ ~ind1.nan /\ ~ind2.nan
                             /\ ind2.v - ind_low < ind1.v - ind_low]
        ELSE LET ind_high == CHOOSE v \in defined : \A w \in defined : v >= w
             IN  [raised |-> FALSE,
                  value  |-> /\ iloc(d.low, pattern_idx2) < iloc(d.low, pattern_idx1)
                             /\ ~ind1.nan /\ ~ind2.nan
                             /\ ind_high - ind2.v < ind_high - ind1.v]

\* check_candle_pattern of the backtester
bt_check_candle_pattern(d, pattern_idx) ==
    IF pattern_idx < 1 \/ pattern_idx >= NRows(d) THEN "none"
    ELSE LET open_  == iloc(d.open, pattern_idx)
             high   == iloc(d.high, pattern_idx)
             low    == iloc(d.low, pattern_idx)
             close  == iloc(d.close, pattern_idx)
             p_open  == iloc(d.open, pattern_idx - 1)
             p_high  == iloc(d.high, pattern_idx - 1)
             p_low   == iloc(d.low, pattern_idx - 1)
             p_close == iloc(d.close, pattern_idx - 1)
             body       == Abs(close - open_)
             upper_wick == high - Max2(open_, close)
             lower_wick == Min2(open_, close) - low
             current_is_bullish == close > open_
             prev_is_bullish    == p_close > p_open
         IN  IF upper_wick > 2 * body \/ lower_wick > 2 * body THEN "long_wick"
             ELSE IF /\ high > p_high /\ low < p_low
                     /\ current_is_bullish # prev_is_bullish
                     /\ Max2(open_, close) > Max2(p_open, p_close)
                     /\ Min2(open_, close) < Min2(p_open, p_close)
                  THEN (IF prev_is_bullish THEN "bearish_engulfing" ELSE "bullish_engulfing")
             ELSE "none"

-----------------------------------------------------------------------------
(* Specification of the checks on their own: one call of a check (and of   *)
(* its backtester counterpart) on arguments drawn from small sets          *)

CheckBars == 60       \* rows of the frames of the trend and divergence checks
CheckIdx1 == 10       \* the first index of the divergence checks
CheckIdx2 == 20       \* the second index of the divergence checks

ConstColumn(n, v) == [k \in 1..n |-> v]

\* a column that is a everywhere but at position idx, where it is b
StepColumn(n, idx, a, b) == [k \in 1..n |-> IF k - 1 = idx THEN b ELSE a]

NoIndicatorColumns ==
    [has_indicators |-> FALSE, ema21 |-> <<>>, ema55 |-> <<>>, ema144 |-> <<>>,
     macd |-> <<>>, rsi |-> <<>>]

\* the frame of a trend check: flat bars, constant EMA columns
TrendFrame(in) ==
    [timestamp |-> [k \in 1..CheckBars |-> 1000 + (k - 1)],
     open   |-> ConstColumn(CheckBars, 100), high  |-> ConstColumn(CheckBars, 101),
     low    |-> ConstColumn(CheckBars, 99),  close |-> ConstColumn(CheckBars, 100),
     volume |-> ConstColumn(CheckBars, 1000),
     atr    |-> ConstColumn(CheckBars, 2), has_atr |-> TRUE,
     has_indicators |-> in.has_indicators,
     ema21  |-> IF in.has_indicators THEN ConstColumn(CheckBars, in.ema21) ELSE <<>>,
     ema55  |-> IF in.has_indicators THEN ConstColumn(CheckBars, in.ema55) ELSE <<>>,
     ema144 |-> IF in.has_indicators THEN ConstColumn(CheckBars, in.ema144) ELSE <<>>,
     macd   |-> IF in.has_indicators THEN ConstColumn(CheckBars, NaN) ELSE <<>>,
     rsi    |-> IF in.has_indicators THEN ConstColumn(CheckBars, NaN) ELSE <<>>]

TrendInputs ==
    [kind : {"trend"}, idx : {0, TREND_MIN_IDX - 1, TREND_MIN_IDX, CheckBars - 1},
     has_indicators : BOOLEAN,
     ema21 : {NaN, Num(99), Num(100), Num(101)},
     ema55 : {NaN, Num(100)},
     ema144 : {NaN, Num(99), Num(101)}]

\* the frame of a divergence check: price, indicator and volume are price1,
\* ind1 and vol1 on every row but CheckIdx2, where they are price2, ind2, vol2
DivergenceFrame(in) ==
    [timestamp |-> [k \in 1..CheckBars |-> 1000 + (k - 1)],
     open   |-> StepColumn(CheckBars, CheckIdx2, in.price1, in.price2),
     high   |-> StepColumn(CheckBars, CheckIdx2, in.price1 + 1, in.price2 + 1),
     low    |-> StepColumn(CheckBars, CheckIdx2, in.price1 - 1, in.price2 - 1),
     close  |-> StepColumn(CheckBars, CheckIdx2, in.price1, in.price2),
     volume |-> StepColumn(CheckBars, CheckIdx2, in.vol1, in.vol2),
     atr    |-> ConstColumn(CheckBars, 2), has_atr |-> TRUE,
     has_indicators |-> TRUE,
     ema21  |-> ConstColumn(CheckBars, NaN),
     ema55  |-> ConstColumn(CheckBars, NaN),
     ema144 |-> ConstColumn(CheckBars, NaN),
     macd   |-> StepColumn(CheckBars, CheckIdx2, in.ind1, in.ind2),
     rsi    |-> StepColumn(CheckBars, CheckIdx2, in.ind1, in.ind2)]

DivergenceInputs ==
    [kind : {"divergence"},
     pattern_type : {"double_top", "head_shoulder_bottom"},
     price1 : {100}, price2 : {95, 99, 101, 105},
     ind1 : {NaN, Num(50)}, ind2 : {NaN, Num(49), Num(51)},
     vol1 : {0, 1000}, vol2 : {900, 1100}]

\* the frame of a candle check: the previous bar and the current one
CandleFrame(in) ==
    [timestamp |-> <<1000, 1001>>,
     open   |-> <<in.prev.open, in.bar.open>>,
     high   |-> <<in.prev.high, in.bar.high>>,
     low    |-> <<in.prev.low, in.bar.low>>,
     close  |-> <<in.prev.close, in.bar.close>>,
     volume |-> <<1000, 1000>>,
     atr    |-> <<0, 0>>, has_atr |-> FALSE] @@ NoIndicatorColumns

\* bars whose high and low enclose open and close
CandleBars ==
    {[open |-> o, close |-> c, high |-> Max2(o, c) + u, low |-> Min2(o, c) - l] :
        o \in {100, 102, 106}, c \in {100, 102, 106}, u \in {0, 1, 8}, l \in {0, 1, 8}}

PreviousBars ==
    {[open |-> 101, close |-> 105, high |-> 105, low |-> 101],
     [open |-> 105, close |-> 101, high |-> 105, low |-> 101],
     [open |-> 103, close |-> 103, high |-> 103, low |-> 103]}

CandleInputs ==
    [kind : {"candle"}, idx : {0, 1, 2}, bar : CandleBars, prev : PreviousBars]

\* the frame handed to the indicator functions: n flat bars from the buffer
IndicatorInputs ==
    [kind : {"indicators"},
     n : {0, 1, ATR_WINDOW, MIN_BARS - 1, MIN_BARS, buffer_size},
     env : LibEnvs]

IndicatorFrame(in) ==
    RawFrame([n |-> in.n, heights |-> <<0, 0, 0, 0, 0>>, atr |-> 2,
              dir |-> "up", has_atr |-> FALSE])

CheckInit ==
    /\ check_in \in TrendInputs \cup DivergenceInputs \cup CandleInputs
                    \cup IndicatorInputs
    /\ check_out = [returned |-> FALSE]
    /\ CheckOnly

CallTrendChecks ==
    /\ check_in.kind = "trend"
    /\ ~check_out.returned
    /\ check_out' = [returned |-> TRUE,
                     live      |-> check_trend_status(TrendFrame(check_in), check_in.idx),
                     backtest  |-> bt_check_trend(TrendFrame(check_in), check_in.idx)]
    /\ UNCHANGED check_in
    /\ UNCHANGED <<detVars, bufVars, btVars, rpVars, psVars, serviceVars>>

VolumeColumn(d) == [k \in 1..NRows(d) |-> Num(d.volume[k])]

CallDivergenceChecks ==
    /\ check_in.kind = "divergence"
    /\ ~check_out.returned
    /\ LET d == DivergenceFrame(check_in)
           t == check_in.pattern_type
       IN  check_out' =
             [returned |-> TRUE,
              live     |-> [macd   |-> check_macd_divergence(d, t, CheckIdx1, CheckIdx2),
                            rsi    |-> check_rsi_divergence(d, t, CheckIdx1, CheckIdx2),
                            volume |-> check_volume_divergence(d, t, CheckIdx1, CheckIdx2)],
              backtest |-> [macd   |-> bt_check_divergence(d, d.macd, t, CheckIdx1, CheckIdx2),
                            rsi    |-> bt_check_divergence(d, d.rsi, t, CheckIdx1, CheckIdx2),
                            volume |-> bt_check_divergence(d, VolumeColumn(d), t,
                                                           CheckIdx1, CheckIdx2)]]
    /\ UNCHANGED check_in
    /\ UNCHANGED <<detVars, bufVars, btVars, rpVars, psVars, serviceVars>>

CallCandleChecks ==
    /\ check_in.kind = "candle"
    /\ ~check_out.returned
    /\ check_out' = [returned |-> TRUE,
                     live     |-> check_candle_pattern(CandleFrame(check_in), check_in.idx),
                     backtest |-> bt_check_candle_pattern(CandleFrame(check_in), check_in.idx)]
    /\ UNCHANGED check_in
    /\ UNCHANGED <<detVars, bufVars, btVars, rpVars, psVars, serviceVars>>

CallCalculateIndicators ==
    /\ check_in.kind = "indicators"
    /\ ~check_out.returned
    /\ LET d   == IndicatorFrame(check_in)
           lib == LibColumns(check_in.n, 2, check_in.env)
       IN  check_out' = [returned |-> TRUE,
                         basic |-> calculate_basic_indicators_ta(d, lib),
                         full  |-> calculate_indicators(d, lib)]
    /\ UNCHANGED check_in
    /\ UNCHANGED <<detVars, bufVars, btVars, rpVars, psVars, serviceVars>>

CheckNext ==
    \/ CallTrendChecks
    \/ CallDivergenceChecks
    \/ CallCandleChecks
    \/ CallCalculateIndicators

SpecCheck == CheckInit /\ [][CheckNext]_ckVars

-----------------------------------------------------------------------------
(* Properties of the checks                                                *)

Checked(kind) == check_out.returned /\ check_in.kind = kind

\* the direction a divergence needs: price up and indicator down for a top,
\* price down and indicator up for a bottom
DirectionHolds(a1, a2) ==
    IF check_in.pattern_type \in {"double_top", "head_shoulder_top"}
    THEN check_in.price2 > check_in.price1 /\ a2 < a1
    ELSE check_in.price2 < check_in.price1 /\ a2 > a1

\* the price change between the two indices reaches 0.5 x min_strength
PriceChangeReached ==
    MIN_STRENGTH_DEN * Abs(check_in.price2 - check_in.price1)
        >= MIN_STRENGTH_NUM * check_in.price1

IndicatorUndefined == check_in.ind1.nan \/ check_in.ind2.nan

\* C15: each of the MACD, RSI and volume divergence checks returns true only
\* if the price change between the two indices reaches 0.5 x min_strength and
\* price and indicator move in opposite directions (price up / indicator down
\* for a top, price down / indicator up for a bottom), and returns false when
\* the indicator is undefined at either index.
C15_DivergenceNeedsPriceChange ==
    Checked("divergence")
    => /\ check_out.live.macd
          => /\ PriceChangeReached
             /\ ~IndicatorUndefined
             /\ DirectionHolds(check_in.ind1.v, check_in.ind2.v)
       /\ check_out.live.rsi
          => /\ PriceChangeReached
             /\ ~IndicatorUndefined
             /\ DirectionHolds(check_in.ind1.v, check_in.ind2.v)
       /\ check_out.live.volume
          => /\ PriceChangeReached
             /\ DirectionHolds(check_in.vol1, check_in.vol2)
       /\ IndicatorUndefined => (~check_out.live.macd /\ ~check_out.live.rsi)

\* the part of C15 the MACD check satisfies, and the direction and undefined
\* parts for all three
C15_DirectionAndUndefined ==
    Checked("divergence")
    => /\ check_out.live.macd
          => /\ PriceChangeReached
             /\ DirectionHolds(check_in.ind1.v, check_in.ind2.v)
       /\ check_out.live.rsi => DirectionHolds(check_in.ind1.v, check_in.ind2.v)
       /\ check_out.live.volume => DirectionHolds(check_in.vol1, check_in.vol2)
       /\ IndicatorUndefined => (~check_out.live.macd /\ ~check_out.live.rsi)

C16_DefinedOutcome ==
    /\ Checked("trend")
    /\ check_out.live = "sideways"

\* C17: the candle classifier returns none for a bar with high = low whatever
\* the previous bar is, and returns none when idx has no previous bar or lies
\* past the end of the frame.
C17_FlatBarIsNone ==
    Checked("candle")
    => /\ (check_in.idx = 1 /\ check_in.bar.high = check_in.bar.low)
          => check_out.live = "none"
       /\ (check_in.idx < 1 \/ check_in.idx >= NRows(CandleFrame(check_in)))
          => check_out.live = "none"

\* a flat bar after a falling bar
C17_Witness ==
    /\ Checked("candle")
    /\ check_in.idx = 1
    /\ check_in.bar.high = check_in.bar.low
    /\ check_in.prev.close < check_in.prev.open
    /\ check_out.live = "none"

\* the classifier is not constant: other bars are classified
C17_OtherBarsClassified ==
    /\ Checked("candle")
    /\ check_out.live \in {"doji", "hammer", "shooting_star", "bullish_engulfing"}

\* C18: on fewer than 100 bars the indicator functions return the frame as it
\* came, without any indicator column (nothing is computed, no zero is written)
\* and without an error; on 100 bars or more the ATR column is there and holds
\* the library's value at the last index.
C18_NothingBelowMinBars ==
    Checked("indicators")
    => LET d    == IndicatorFrame(check_in)
           last == check_in.n - 1
       IN  IF check_in.n < 100
           THEN /\ check_out.basic = d
                /\ check_out.full = d
                /\ ~check_out.full.has_atr
                /\ ~check_out.full.has_indicators
                /\ check_out.full.ema21 = <<>>
                /\ check_out.full.rsi = <<>>
           ELSE /\ check_out.basic.has_atr
                /\ check_out.full.has_atr
                /\ check_out.full.has_indicators
                /\ Len(check_out.full.atr) = check_in.n
                /\ last >= ATR_WINDOW - 1
                /\ iloc(check_out.full.atr, last) = iloc(check_out.basic.atr, last)
                /\ iloc(check_out.full.atr, last) > 0

\* 99 bars: one short of the minimum
C18_Witness ==
    /\ Checked("indicators")
    /\ check_in.n = 99
    /\ ~check_out.full.has_atr
    /\ ~check_out.basic.has_atr

\* 100 bars: the ATR is there
C18_AtMinBars ==
    /\ Checked("indicators")
    /\ check_in.n = 100
    /\ check_out.basic.has_atr

\* C20: on the same frame and candidate the backtester's trend check, its
\* MACD, RSI and volume divergence checks and its candle check return what the
\* live monitor's functions return.
C20_BacktesterMatchesLive ==
    /\ (Checked("trend") /\ check_in.has_indicators)
       => check_out.backtest = check_out.live
    /\ Checked("divergence")
       => /\ ~check_out.backtest.macd.raised
          /\ check_out.backtest.macd.value = check_out.live.macd
          /\ ~check_out.backtest.rsi.raised
          /\ check_out.backtest.rsi.value = check_out.live.rsi
          /\ ~check_out.backtest.volume.raised
          /\ check_out.backtest.volume.value = check_out.live.volume
    /\ Checked("candle")
       => check_out.backtest = check_out.live

\* each part of C20 on its own
C20_TrendMatches ==
    (Checked("trend") /\ check_in.has_indicators)
    => check_out.backtest = check_out.live

C20_MacdMatches ==
    (Checked("divergence") /\ ~IndicatorUndefined)
    => check_out.backtest.macd.value = check_out.live.macd

C20_CandleMatches ==
    Checked("candle") => check_out.backtest = check_out.live

-----------------------------------------------------------------------------
(* Geometry of the emitted candidates                                      *)

\* |a - b| / |b| <= (mn/md) * atr_volatility, for b > 0
WithinRatio(a, b, mn, md, vol) == ~RatioAbove(a, b, mn, md, vol)

\* C24: every emitted head_shoulder_top has both index gaps (left shoulder to
\* head, head to right shoulder) at most 100 bars, each |head - shoulder|
\* relative to the head at most 2.0 x atr_volatility, the two shoulders
\* differing by at most 1.0 x atr_volatility relative to their average, and
\* the head's height above the lowest low between the shoulders, relative to
\* the head, at least 1.5 x atr_volatility; the mirrored bounds (lows as
\* prices, the highest high between the shoulders as reference) hold for
\* every head_shoulder_bottom.
C24_HeadShoulderGeometry ==
    LET vol == atr_volatility(df)
    IN  /\ \A k \in PatternsOfType("head_shoulder_top") :
               LET p     == patterns[k]
                   left  == iloc(df.high, p.left_shoulder_idx)
                   head  == iloc(df.high, p.head_idx)
                   right == iloc(df.high, p.right_shoulder_idx)
                   ref   == LowestLow(df, p.left_shoulder_idx, p.right_shoulder_idx)
               IN  /\ p.head_idx - p.left_shoulder_idx <= MAX_SPAN
                   /\ p.right_shoulder_idx - p.head_idx <= MAX_SPAN
                   /\ WithinRatio(Abs(head - left), head, 2, 1, vol)
                   /\ WithinRatio(Abs(head - right), head, 2, 1, vol)
                   /\ WithinRatio(2 * Abs(left - right), left + right, 1, 1, vol)
                   /\ ~RatioBelow(head - ref, head, 3, 2, vol)
        /\ \A k \in PatternsOfType("head_shoulder_bottom") :
               LET p     == patterns[k]
                   left  == iloc(df.low, p.left_shoulder_idx)
                   head  == iloc(df.low, p.head_idx)
                   right == iloc(df.low, p.right_shoulder_idx)
                   ref   == HighestHigh(df, p.left_shoulder_idx, p.right_shoulder_idx)
               IN  /\ p.head_idx - p.left_shoulder_idx <= MAX_SPAN
                   /\ p.right_shoulder_idx - p.head_idx <= MAX_SPAN
                   /\ WithinRatio(Abs(head - left), head, 2, 1, vol)
                   /\ WithinRatio(Abs(head - right), head, 2, 1, vol)
                   /\ WithinRatio(2 * Abs(left - right), left + right, 1, 1, vol)
                   /\ ~RatioBelow(ref - head, head, 3, 2, vol)

\* a wide frame in which the detector emitted a head_shoulder_top with
\* unequal shoulders and a head_shoulder_bottom
C24_Witness ==
    /\ NRows(df) >= WideBars
    /\ called = "_detect_head_shoulder_patterns"
    /\ \E k \in PatternsOfType("head_shoulder_top") :
           iloc(df.high, patterns[k].left_shoulder_idx)
               # iloc(df.high, patterns[k].right_shoulder_idx)
    /\ PatternsOfType("head_shoulder_bottom") # {}

\* C25: every emitted double_bottom has its two trough indices at most 100
\* bars apart, trough lows that differ by at most 1.0 x atr_volatility
\* relative to their average, and a highest high between the troughs that
\* exceeds each trough low by at least 2.0 x atr_volatility relative to that
\* low; neither detector emits a double_top or double_bottom for extrema
\* more than 100 bars apart.
C25_DoubleBottomGeometry ==
    LET vol == atr_volatility(df)
    IN  /\ \A k \in PatternsOfType("double_bottom") :
               LET p    == patterns[k]
                   low1 == iloc(df.low, p.idx1)
                   low2 == iloc(df.low, p.idx2)
                   peak == HighestHigh(df, p.idx1, p.idx2)
               IN  /\ p.idx2 - p.idx1 <= 100
                   /\ WithinRatio(2 * Abs(low1 - low2), low1 + low2, 1, 1, vol)
                   /\ ~RatioBelow(peak - low1, low1, 2, 1, vol)
                   /\ ~RatioBelow(peak - low2, low2, 2, 1, vol)
        /\ \A k \in PatternsOfType("double_top") \cup PatternsOfType("double_bottom") :
               Abs(patterns[k].idx2 - patterns[k].idx1) <= 100

\* the detector called `name` emitted a double_bottom whose troughs are
\* exactly 100 bars apart
WideDoubleBottom(name) ==
    /\ called = name
    /\ \E k \in PatternsOfType("double_bottom") :
           patterns[k].idx2 - patterns[k].idx1 = 100

\* the live detector, or the backtester's, emitted such a double_bottom
C25_Witness ==
    \/ WideDoubleBottom("_detect_double_patterns")
    \/ WideDoubleBottom("find_double_patterns")

\* the index of the trough (tops) or peak (bottoms) recorded in a candidate
ReferenceIdx(p) ==
    IF p.type \in {"double_top", "head_shoulder_top"} THEN p.trough_idx ELSE p.peak_idx

\* the first constituent extremum of a candidate
FirstConstituent(p) ==
    IF p.type \in {"double_top", "double_bottom"} THEN p.idx1
    ELSE p.left_shoulder_idx

\* the lists of extrema the detectors scan
ScannedExtrema ==
    { argrelextrema(df.high, TRUE, DOUBLE_ORDER), argrelextrema(df.low, FALSE, DOUBLE_ORDER),
      argrelextrema(df.high, TRUE, HS_ORDER), argrelextrema(df.low, FALSE, HS_ORDER) }

\* C30: in every candidate of either detector the constituent indices are
\* strictly increasing (idx1 < idx2; left shoulder < head < right shoulder)
\* and lie inside the analysis window, and the recorded trough / peak index
\* lies in the closed range between the first and the last constituent; the
\* degenerate-span rejection (start >= end) never fires, because consecutive
\* extrema have strictly increasing indices.
C30_IndicesOrderedAndInRange ==
    /\ \A k \in 1..Len(patterns) :
           LET p == patterns[k]
           IN  /\ 0 <= FirstConstituent(p)
               /\ LastConstituent(p) < NRows(df)
               /\ FirstConstituent(p) < LastConstituent(p)
               /\ p.type \in {"head_shoulder_top", "head_shoulder_bottom"}
                      => /\ p.left_shoulder_idx < p.head_idx
                         /\ p.head_idx < p.right_shoulder_idx
               /\ ReferenceIdx(p) \in FirstConstituent(p)..LastConstituent(p)
    /\ pc # "input" =>
           \A ext \in ScannedExtrema : \A j \in 1..(Len(ext) - 1) :
               ~(Min2(ext[j], ext[j + 1]) >= Max2(ext[j], ext[j + 1]))

\* one run emitted a double pattern and a head-and-shoulders pattern, one of
\* them with its trough or peak strictly between its constituents
C30_Witness ==
    /\ \E k \in 1..Len(patterns) : patterns[k].type \in {"double_top", "double_bottom"}
    /\ \E k \in 1..Len(patterns) :
           /\ patterns[k].type \in {"head_shoulder_top", "head_shoulder_bottom"}
           /\ FirstConstituent(patterns[k]) < ReferenceIdx(patterns[k])
           /\ ReferenceIdx(patterns[k]) < LastConstituent(patterns[k])

-----------------------------------------------------------------------------
(* send_signal_to_webhook: one call, post by post                          *)

\* what one requests.post can give: status 200, another status, or an
\* exception (the timeout of WEBHOOK_CONFIG['timeout'] seconds included)
PostOutcomes == {"200", "500", "exception"}

\* a faulty variant: the delay is also made after the last attempt
SleepsAfterFailure_Always(attempt) == TRUE

\* if attempt < WEBHOOK_CONFIG['retry_attempts'] - 1: await asyncio.sleep(...)
SleepsAfterFailure(attempt) == attempt < RETRY_ATTEMPTS - 1

SendInit ==
    /\ signal_count = 0
    /\ wh_pc = "post"
    /\ wh_attempt = 0
    /\ wh_responses = <<>>
    /\ wh_sleeps = 0
    /\ SendOnly

\* one turn of `for attempt in range(retry_attempts)` up to its sleep: the
\* post, the count and return on 200, the log on anything else
Post ==
    /\ wh_pc = "post"
    /\ wh_attempt < RETRY_ATTEMPTS
    /\ \E outcome \in PostOutcomes :
          /\ wh_responses' = Append(wh_responses, outcome)
          /\ IF outcome = "200"
             THEN /\ signal_count' = signal_count + 1
                  /\ wh_pc' = "returned"
                  /\ UNCHANGED wh_attempt
             ELSE /\ UNCHANGED signal_count
                  /\ IF SleepsAfterFailure(wh_attempt)
                     THEN wh_pc' = "sleep" /\ UNCHANGED wh_attempt
                     ELSE /\ wh_attempt' = wh_attempt + 1
                          /\ wh_pc' = IF wh_attempt + 1 < RETRY_ATTEMPTS
                                      THEN "post" ELSE "returned"
    /\ UNCHANGED wh_sleeps
    /\ UNCHANGED exceptSend

\* await asyncio.sleep(retry_delay) ends and the loop takes its next turn
Sleep ==
    /\ wh_pc = "sleep"
    /\ wh_sleeps' = wh_sleeps + 1
    /\ wh_attempt' = wh_attempt + 1
    /\ wh_pc' = IF wh_attempt + 1 < RETRY_ATTEMPTS THEN "post" ELSE "returned"
    /\ UNCHANGED <<signal_count, wh_responses>>
    /\ UNCHANGED exceptSend

SendNext == Post \/ Sleep

SpecSend == SendInit /\ [][SendNext]_whVars

\* a post returns or raises within its timeout and a sleep ends, so a call
\* that can take a step takes it
SpecSendFair == SpecSend /\ WF_whVars(SendNext)

\* the posts made so far, and whether one of them returned 200
Posts == Len(wh_responses)
Got200 == \E i \in 1..Posts : wh_responses[i] = "200"

SendBounded ==
    /\ Posts <= RETRY_ATTEMPTS
    /\ \A i \in 1..(Posts - 1) : wh_responses[i] # "200"
    /\ wh_sleeps <= Posts
    /\ wh_pc = "returned" => wh_sleeps = Posts - 1
    /\ wh_pc = "returned" /\ ~Got200 => Posts = RETRY_ATTEMPTS
    /\ signal_count = IF Got200 THEN 1 ELSE 0

\* C28: send_signal_to_webhook makes at most retry_attempts posts for one
\* signal and none after the first 200, sleeps retry_delay only between two
\* posts (never after the last one), always returns, and raises signal_count
\* by exactly one if a post returned 200 and by nothing otherwise.
C28_BoundedDelivery == []SendBounded /\ <>(wh_pc = "returned")

\* a call that returned with a 200 on its last allowed post, after four sleeps
C28_Witness ==
    /\ wh_pc = "returned"
    /\ Posts = RETRY_ATTEMPTS
    /\ wh_responses[Posts] = "200"
    /\ wh_sleeps = RETRY_ATTEMPTS - 1
    /\ signal_count = 1

-----------------------------------------------------------------------------
(* The polling thread of the railway deployment and its stop flag          *)
(* (MonitorApp._start_http_monitoring, MonitorApp.stop_monitoring)         *)

StopSymbols == 3           \* symbols the thread polls in a round
MaxRounds == 2             \* rounds of the while loop that are explored

\* what the thread begins is logged once it has found the flag cleared
AfterStop(what) == IF st_seen THEN Append(st_after, what) ELSE st_after

StopInit ==
    /\ is_running = TRUE
    /\ st_pc = "while"
    /\ st_symbol = 0
    /\ st_round = 0
    /\ st_wake = "idle"
    /\ st_seen = FALSE
    /\ st_after = <<>>
    /\ StopOnly

\* stop_monitoring, called on another thread at any moment
StopMonitoring ==
    /\ is_running
    /\ is_running' = FALSE
    /\ UNCHANGED <<st_pc, st_symbol, st_round, st_wake, st_seen, st_after>>
    /\ UNCHANGED exceptStop

\* while self.is_running:
WhileTest ==
    /\ st_pc = "while"
    /\ is_running => st_round < MaxRounds
    /\ IF is_running
       THEN st_pc' = "for" /\ st_symbol' = 1 /\ st_round' = st_round + 1
       ELSE st_pc' = "exited" /\ UNCHANGED <<st_symbol, st_round>>
    /\ st_seen' = ~is_running
    /\ UNCHANGED <<is_running, st_wake, st_after>>
    /\ UNCHANGED exceptStop

\* for symbol in symbols_to_monitor: if not self.is_running: break
ForNext ==
    /\ st_pc = "for"
    /\ st_pc' = IF st_symbol > StopSymbols THEN "round_sleep"
                ELSE IF ~is_running THEN "round_sleep"   \* break
                ELSE "fetch"
    /\ st_seen' = (st_symbol <= StopSymbols /\ ~is_running)
    /\ UNCHANGED <<is_running, st_symbol, st_round, st_wake, st_after>>
    /\ UNCHANGED exceptStop

\* _get_latest_kline and, for a new bar, _process_kline_data; an exception
\* in the loop body goes to the handler, which sleeps 5 seconds
FetchAndProcess ==
    /\ st_pc = "fetch"
    /\ \E kline_data \in {"none", "same", "new", "raises"} :
          /\ st_after' = IF kline_data = "new"
                         THEN AfterStop("fetch") \o (IF st_seen THEN <<"process">> ELSE <<>>)
                         ELSE AfterStop("fetch")
          /\ st_pc' = IF kline_data = "raises" THEN "error_sleep" ELSE "rate_sleep"
    /\ UNCHANGED <<is_running, st_symbol, st_round, st_wake, st_seen>>
    /\ UNCHANGED exceptStop

\* time.sleep(rate_limit_delay) after a symbol, time.sleep(update_interval)
\* after a round, time.sleep(5) in the exception handler: the sleep begins
BeginSleep ==
    /\ st_pc \in {"rate_sleep", "round_sleep", "error_sleep"}
    /\ st_after' = AfterStop(st_pc)
    /\ st_wake' = IF st_pc = "rate_sleep" THEN "for" ELSE "while"
    /\ st_symbol' = IF st_pc = "rate_sleep" THEN st_symbol + 1 ELSE st_symbol
    /\ st_pc' = "sleeping"
    /\ UNCHANGED <<is_running, st_round, st_seen>>
    /\ UNCHANGED exceptStop

\* the sleep ends
EndSleep ==
    /\ st_pc = "sleeping"
    /\ st_pc' = st_wake
    /\ UNCHANGED <<is_running, st_symbol, st_round, st_wake, st_seen, st_after>>
    /\ UNCHANGED exceptStop

StopNext ==
    \/ StopMonitoring
    \/ WhileTest
    \/ ForNext
    \/ FetchAndProcess
    \/ BeginSleep
    \/ EndSleep

SpecStop == StopInit /\ [][StopNext]_stVars

\* C22: once stop_monitoring has cleared is_running and the polling loop has
\* found it cleared, the loop fetches and processes no further symbol and
\* exits without beginning another sleep.
C22_StopHaltsBeforeSleep == st_after = <<>>

\* the part of C22 that the loop keeps: having found the flag cleared, the
\* thread fetches and processes no symbol; all it still begins is the one
\* sleep that ends the round
C22_NoFurtherSymbol == st_after \in {<<>>, <<"round_sleep">>}

\* the thread has left the loop after the flag was cleared in mid-round
C22_ExitedAfterBreak ==
    /\ st_pc = "exited"
    /\ st_after # <<>>

-----------------------------------------------------------------------------
(* The hourly loop of EnhancedRealTimeMonitor.start_monitoring.  The wall  *)
(* clock counts steps of 10 seconds: 6 to the minute, 360 to the hour.    *)

MaxHours == 3              \* hours of wall clock that are explored

\* datetime.now().minute and the hour the clock is in
Minute(t) == (t % 360) \div 6
Hour(t) == t \div 360

\* how long a fetch cycle can take, in steps: 10 seconds, 5 minutes,
\* 58 minutes, 59 minutes and a half -- each less than an hour
CycleSteps == {1, 30, 348, 357}

\* the sleep of the else branch: 60 seconds, or 10 seconds in minute 59
WaitSteps(current_minute) == IF 60 - current_minute > 1 THEN 6 ELSE 1

SchedInit ==
    /\ sc_clock \in 0..359
    /\ sc_pc = "check"
    /\ sc_until = 0
    /\ sc_began = sc_clock
    /\ sc_started = <<>>
    /\ sc_checked = <<>>
    /\ sc_longest = 0
    /\ SchedOnly

\* current_minute = datetime.now().minute; in minute 0 the fetch cycle
\* starts, otherwise the loop sleeps
CheckClock ==
    /\ sc_pc = "check"
    /\ sc_clock < MaxHours * 360
    /\ sc_checked' = Append(sc_checked, sc_clock)
    /\ IF Minute(sc_clock) = 0
       THEN /\ sc_started' = Append(sc_started, sc_clock)
            /\ sc_pc' = "cycle"
            /\ \E d \in CycleSteps :
                  /\ sc_until' = sc_clock + d
                  /\ sc_longest' = Max2(sc_longest, d)
       ELSE /\ sc_pc' = "sleep"
            /\ sc_until' = sc_clock + WaitSteps(Minute(sc_clock))
            /\ UNCHANGED <<sc_started, sc_longest>>
    /\ UNCHANGED <<sc_clock, sc_began>>
    /\ UNCHANGED exceptSched

\* fetch_latest_klines_api returns and asyncio.sleep(60) begins
EndCycle ==
    /\ sc_pc = "cycle"
    /\ sc_clock' = sc_until
    /\ sc_pc' = "sleep"
    /\ sc_until' = sc_until + 6
    /\ UNCHANGED <<sc_began, sc_started, sc_checked, sc_longest>>
    /\ UNCHANGED exceptSched

\* the sleep ends
WakeUp ==
    /\ sc_pc = "sleep"
    /\ sc_clock' = sc_until
    /\ sc_pc' = "check"
    /\ UNCHANGED <<sc_until, sc_began, sc_started, sc_checked, sc_longest>>
    /\ UNCHANGED exceptSched

SchedNext == CheckClock \/ EndCycle \/ WakeUp

SpecSched == SchedInit /\ [][SchedNext]_scVars

\* the hours whose minute 0 has wholly passed while the loop was running
PassedHours ==
    {h \in 0..MaxHours : h * 360 >= sc_began /\ h * 360 + 6 <= sc_clock}

CycleStartedIn(h) == \E i \in 1..Len(sc_started) : Hour(sc_started[i]) = h

\* a cycle starts in minute 0 only, the clock is not read for 60 seconds
\* after a cycle, and no hour sees two starts
OnePerHour ==
    /\ \A i \in 1..Len(sc_started) : Minute(sc_started[i]) = 0
    /\ \A i \in 1..Len(sc_started) : \A j \in 1..Len(sc_checked) :
           sc_checked[j] > sc_started[i] => sc_checked[j] >= sc_started[i] + 6
    /\ \A i \in 1..Len(sc_started) : \A j \in 1..Len(sc_started) :
           i # j => Hour(sc_started[i]) # Hour(sc_started[j])

\* C29: the loop starts a fetch cycle only in minute 0 and does not read the
\* clock for 60 seconds after a cycle, so at most one cycle starts per hour;
\* and while the loop runs and every cycle takes less than an hour, a cycle
\* starts in every hour.
C29_OneCycleEveryHour ==
    /\ OnePerHour
    /\ sc_longest < 360 => \A h \in PassedHours : CycleStartedIn(h)

\* the part of C29 that the loop keeps
C29_AtMostOnePerHour == OnePerHour

\* with every cycle and its 60-second sleep over within 59 minutes, a cycle
\* starts in every hour
C29_EveryHourWhenShort ==
    sc_longest <= 348 => \A h \in PassedHours : CycleStartedIn(h)

\* two full hours have passed with a cycle in each
C29_TwoHoursServed ==
    /\ Len(sc_started) >= 2
    /\ Cardinality(PassedHours) >= 2
    /\ \A h \in PassedHours : CycleStartedIn(h)

-----------------------------------------------------------------------------
(* The hourly cycle's turn for one symbol (fetch_latest_klines_api)        *)

\* the last call was a turn of the hourly cycle that was given two bars
CycleTurn ==
    /\ last_call.op = "fetch_latest_klines_api"
    /\ Len(last_call.klines) >= 2

\* the completed bar of that turn, and the buffer as the turn found it
CompletedBar == last_call.klines[Len(last_call.klines) - 1]
BarsBefore == last_call.before.buf.bars

\* the completed bar is not the last buffered one
DiffersFromLast ==
    BarsBefore = <<>> \/ BarsBefore[Len(BarsBefore)].time # CompletedBar.time

\* the turn appended the completed bar once and ran process_kline_data once
AddedOnce ==
    /\ Len(appended) = Len(last_call.before.appended) + 1
    /\ appended[Len(appended)].time = CompletedBar.time
    /\ Bars[Len(Bars)] = appended[Len(appended)]
    /\ message_count = last_call.before.message_count + 1

NothingAdded ==
    /\ appended = last_call.before.appended
    /\ Bars = BarsBefore

\* every buffer entry has the keys timestamp, open, high, low, close, volume
SameBarShape == \A i \in 1..Len(Bars) : Bars[i].kind = "kline"

\* C26: in the hourly cycle a completed bar that differs from the last
\* buffered bar is added to the buffer exactly once and one analysis pass
\* runs on it; the same bar as the last buffered one adds nothing; this holds
\* in every cycle after the preload, and every buffer entry keeps one shape.
C26_CycleAddsNewBarOnce ==
    /\ CycleTurn => IF DiffersFromLast THEN AddedOnce ELSE NothingAdded
    /\ SameBarShape

\* after a preload that filled the buffer, a turn with a new bar adds it
C26_AddedAfterPreload ==
    (CycleTurn /\ DiffersFromLast /\ BarsBefore # <<>>) => AddedOnce

\* on a buffer the preload left empty, a turn adds its bar once
C26_AddedOnceToEmpty ==
    (CycleTurn /\ BarsBefore = <<>>) => AddedOnce

\* a turn whose bar is the last buffered one adds nothing
C26_SameBarAddsNothing ==
    (CycleTurn /\ ~DiffersFromLast) => NothingAdded

-----------------------------------------------------------------------------
(* get_historical_klines: the data sources and their failover              *)

MAX_FAILURES == 3              \* self.max_failures_per_source
HEALTH_CHECK_INTERVAL == 300   \* self.health_check_interval, seconds
FAILURE_RESET_INTERVAL == 1800 \* self.failure_reset_interval, seconds
None == 0 - 1                  \* last_health_check of a source never checked

\* self.data_sources, in order
data_sources == <<"binance", "coingecko", "alpha_vantage", "coinmarketcap">>
Sources == {data_sources[k] : k \in 1..Len(data_sources)}
SourceIndex(s) == CHOOSE k \in 1..Len(data_sources) : data_sources[k] = s

\* the monitor's data-source fields, read from the variables
SourceState ==
    [cur   |-> current_data_source,
     fail  |-> data_source_failures,
     check |-> last_health_check,
     reset |-> last_failure_reset]

\* a faulty variant: a recent health check is not trusted, the source is
\* always pinged
HealthFromCache_Never(last_check, t) == FALSE

\* if last_check and current_time - last_check < self.health_check_interval
HealthFromCache(last_check, t) ==
    last_check # None /\ t - last_check < HEALTH_CHECK_INTERVAL

\* check_data_source_health(source) at time t; env[source].ping is what the
\* source's health request gives.  The failure counter is reset after the
\* reset interval; a check made less than 5 minutes after the previous one
\* answers from the counter, any other one from the ping alone.
check_data_source_health(G, source, t, env) ==
    LET G1 == IF t - G.reset[source] > FAILURE_RESET_INTERVAL
              THEN [G EXCEPT !.fail[source] = 0, !.reset[source] = t]
              ELSE G
        ok == IF HealthFromCache(G1.check[source], t)
              THEN G1.fail[source] < MAX_FAILURES
              ELSE env[source].ping
    IN  [G |-> [G1 EXCEPT !.check[source] = t], ok |-> ok]

\* _get_<source>_klines: a failed request raises; a served one makes the
\* source the current one and clears its counter before it returns its
\* (possibly empty) list
GetSourceKlines(G, source, env) ==
    IF env[source].fetch = "raise" THEN G
    ELSE [G EXCEPT !.cur = source, !.fail[source] = 0]

\* one request for candles, as the claims see it
Ask(G, source, env, after) ==
    [source |-> source, failures |-> G.fail[source], outcome |-> env[source].fetch,
     before |-> G.fail, after |-> after.fail]

\* switch_to_next_data_source: the first other source, in ring order from
\* the current one, whose health check passes
RECURSIVE SwitchFrom(_, _, _, _, _)
SwitchFrom(G, current_index, i, t, env) ==
    IF i >= Len(data_sources) THEN G
    ELSE LET next_source == data_sources[((current_index - 1 + i) % Len(data_sources)) + 1]
             h == check_data_source_health(G, next_source, t, env)
         IN  IF h.ok THEN [h.G EXCEPT !.cur = next_source]
             ELSE SwitchFrom(h.G, current_index, i + 1, t, env)

switch_to_next_data_source(G, t, env) ==
    SwitchFrom(G, SourceIndex(G.cur), 1, t, env)

\* lines 177-204: the current source is tried first
TryCurrentSource(G, t, env) ==
    LET h == check_data_source_health(G, G.cur, t, env)
        source == G.cur
    IN  IF ~h.ok THEN [G |-> h.G, data |-> FALSE, by |-> "none", asks |-> <<>>]
        ELSE LET got == GetSourceKlines(h.G, source, env)
             IN  IF env[source].fetch = "data"
                 THEN [G |-> got, data |-> TRUE, by |-> source,
                       asks |-> <<Ask(h.G, source, env, got)>>]
                 ELSE LET failed == [got EXCEPT !.fail[got.cur] = @ + 1]
                          G2 == IF failed.fail[failed.cur] >= MAX_FAILURES
                                THEN switch_to_next_data_source(failed, t, env)
                                ELSE failed
                      IN  [G |-> G2, data |-> FALSE, by |-> "none",
                           asks |-> <<Ask(h.G, source, env, failed)>>]

\* lines 206-246: the other sources, in the order of self.data_sources
RECURSIVE TryOtherSources(_, _, _, _, _)
TryOtherSources(G, k, t, env, asks) ==
    IF k > Len(data_sources) THEN [G |-> G, data |-> FALSE, by |-> "none", asks |-> asks]
    ELSE LET source == data_sources[k]
         IN  IF source = G.cur THEN TryOtherSources(G, k + 1, t, env, asks)
             ELSE IF G.fail[source] >= MAX_FAILURES
             THEN TryOtherSources(G, k + 1, t, env, asks)
             ELSE LET h == check_data_source_health(G, source, t, env)
                  IN  IF ~h.ok THEN TryOtherSources(h.G, k + 1, t, env, asks)
                      ELSE LET got == GetSourceKlines(h.G, source, env)
                           IN  IF env[source].fetch = "data"
                               THEN [G |-> [got EXCEPT !.cur = source], data |-> TRUE,
                                     by |-> source,
                                     asks |-> Append(asks, Ask(h.G, source, env, got))]
                               ELSE LET failed == [got EXCEPT !.fail[source] = @ + 1]
                                    IN  TryOtherSources(failed, k + 1, t, env,
                                            Append(asks, Ask(h.G, source, env, failed)))

\* get_historical_klines at time t: the fields afterwards, whether a
\* non-empty list came back and from which source, and the requests made
source_failover(G, t, env) ==
    LET first == TryCurrentSource(G, t, env)
    IN  IF first.data THEN first
        ELSE TryOtherSources(first.G, 1, t, env, first.asks)

-----------------------------------------------------------------------------
(* start_monitoring: preload, then the fetch cycles, over the data sources *)

PollSymbols == 5   \* symbols in the monitoring list
MaxPolls == 2      \* fetch cycles followed
FirstHour == 3     \* hourly bars the exchange holds when the monitor starts

\* what one source does during one call: its health request and its
\* candle request
Up      == [ping |-> TRUE,  fetch |-> "data"]
Limited == [ping |-> TRUE,  fetch |-> "raise"]
Empty   == [ping |-> TRUE,  fetch |-> "empty"]
Down    == [ping |-> FALSE, fetch |-> "raise"]

\* Alpha Vantage's check and getter read self.alpha_vantage_api_key, which
\* the constructor never sets (it sets alpha_vantage_key): both raise.
\* CoinMarketCap without an API key fails its check and raises.
SourceEnvs ==
    {[binance |-> b, coingecko |-> c, alpha_vantage |-> Down, coinmarketcap |-> Down] :
        b \in {Up, Limited, Empty, Down}, c \in {Up, Down}}

\* seconds from the preload to the first full hour (here ten minutes: more
\* than a health check stays fresh, less than the failure reset interval);
\* the later cycles begin an hour after the one before
FirstWaits == {600}
WaitSeconds(cycles) == IF cycles = 0 THEN FirstWaits ELSE {3600}
RetrySeconds == 300   \* await asyncio.sleep(300) before the second preload

LatestHour == FirstHour + po_time \div 3600

SymSelf(i) ==
    [buf |-> po_buffers[i], message_count |-> 0, pattern_count |-> 0,
     tasks |-> <<>>, appended |-> <<>>, last_frame_len |-> 0]

\* the next symbol of self.active_symbols after position i
NextActive(i) ==
    IF \E j \in po_active : j > i
    THEN CHOOSE j \in po_active : j > i /\ \A k \in po_active : k > i => j <= k
    ELSE PollSymbols + 1

\* a faulty variant: a symbol without data ends the cycle
AfterNoData_Abort(i) == PollSymbols + 1

\* logger.warning(...); failed_count += 1; continue
AfterNoData(i) == NextActive(i)

PollInit ==
    /\ current_data_source = "binance"
    /\ data_source_failures = [s \in Sources |-> 0]
    /\ last_health_check = [s \in Sources |-> None]
    /\ last_failure_reset = [s \in Sources |-> 1000]
    /\ po_time = 1000
    /\ po_phase = "preload"
    /\ po_symbol = 1
    /\ po_cycles = 0
    /\ po_turns = 0
    /\ po_active = {}
    /\ po_buffers = [i \in 1..PollSymbols |-> [present |-> FALSE, bars |-> <<>>]]
    /\ po_call = [for |-> "none"]
    /\ PollOnly

SourcesBecome(G) ==
    /\ current_data_source' = G.cur
    /\ data_source_failures' = G.fail
    /\ last_health_check' = G.check
    /\ last_failure_reset' = G.reset

Called(what, r) ==
    [for |-> what, symbol |-> po_symbol, cycle |-> po_cycles, data |-> r.data,
     by |-> r.by, asks |-> r.asks, before |-> po_buffers]

\* one symbol of a preload loop (the first, or the one after the 5-minute
\* retry sleep); after the last symbol the accessible ones become the
\* monitoring list
PreloadSymbol ==
    /\ po_phase \in {"preload", "preload_again"}
    /\ \E env \in SourceEnvs :
         LET r == source_failover(SourceState, po_time, env)
             limit == IF po_phase = "preload" THEN PRELOAD_LIMIT ELSE buffer_size
             S == IF r.data THEN preload(SymSelf(po_symbol), LatestHour, limit)
                  ELSE SymSelf(po_symbol)
             active == IF r.data THEN po_active \cup {po_symbol} ELSE po_active
         IN  /\ SourcesBecome(r.G)
             /\ po_buffers' = [po_buffers EXCEPT ![po_symbol] = S.buf]
             /\ po_active' = active
             /\ po_call' = Called(po_phase, r)
             /\ IF po_symbol < PollSymbols
                THEN /\ po_symbol' = po_symbol + 1
                     /\ po_phase' = po_phase
                ELSE /\ po_symbol' = 1
                     /\ po_phase' = IF active # {} THEN "wait"
                                    ELSE IF po_phase = "preload" THEN "retry_sleep"
                                    ELSE "returned"
    /\ UNCHANGED <<po_time, po_cycles, po_turns>>
    /\ UNCHANGED exceptPoll

\* await asyncio.sleep(300) when no symbol could be loaded
RetrySleep ==
    /\ po_phase = "retry_sleep"
    /\ po_time' = po_time + RetrySeconds
    /\ po_phase' = "preload_again"
    /\ UNCHANGED <<current_data_source, data_source_failures, last_health_check,
                   last_failure_reset, po_symbol, po_cycles, po_turns, po_active,
                   po_buffers, po_call>>
    /\ UNCHANGED exceptPoll

\* the while True loop sleeps until minute 0 and begins a fetch cycle
BeginCycle ==
    /\ po_phase = "wait"
    /\ po_cycles < MaxPolls
    /\ \E d \in WaitSeconds(po_cycles) : po_time' = po_time + d
    /\ po_phase' = "cycle"
    /\ po_symbol' = NextActive(0)
    /\ po_cycles' = po_cycles + 1
    /\ po_turns' = 0
    /\ UNCHANGED <<current_data_source, data_source_failures, last_health_check,
                   last_failure_reset, po_active, po_buffers, po_call>>
    /\ UNCHANGED exceptPoll

\* one symbol's turn in fetch_latest_klines_api
SymbolTurn ==
    /\ po_phase = "cycle"
    /\ \E env \in SourceEnvs :
         LET r == source_failover(SourceState, po_time, env)
             S == fetch_latest_klines_api(SymSelf(po_symbol), LatestHour, r.data)
             next == IF r.data THEN NextActive(po_symbol) ELSE AfterNoData(po_symbol)
         IN  /\ SourcesBecome(r.G)
             /\ po_buffers' = [po_buffers EXCEPT ![po_symbol] = S.buf]
             /\ po_call' = Called("cycle", r)
             /\ po_symbol' = next
             /\ po_phase' = IF next > PollSymbols THEN "wait" ELSE "cycle"
    /\ po_turns' = po_turns + 1
    /\ UNCHANGED <<po_time, po_cycles, po_active>>
    /\ UNCHANGED exceptPoll

PollNext == PreloadSymbol \/ RetrySleep \/ BeginCycle \/ SymbolTurn

SpecPoll == PollInit /\ [][PollNext]_poVars

\* C27, as claimed: no source is asked for candles while its counter stands
\* at max_failures_per_source or above; a failed request raises the asked
\* source's counter by one and no other counter; and a call that returns
\* data leaves that source current with counter 0.
AskedBelowLimit ==
    po_call.for # "none" =>
        \A k \in 1..Len(po_call.asks) : po_call.asks[k].failures < MAX_FAILURES

FailureCountsOne ==
    po_call.for # "none" =>
        \A k \in 1..Len(po_call.asks) :
            LET a == po_call.asks[k]
            IN  a.outcome # "data" =>
                    a.after = [a.before EXCEPT ![a.source] = @ + 1]

DataFromCurrent ==
    (po_call.for # "none" /\ po_call.data) =>
        /\ current_data_source = po_call.by
        /\ data_source_failures[po_call.by] = 0

C27_ExhaustedSourceNotAsked ==
    AskedBelowLimit /\ FailureCountsOne /\ DataFromCurrent

\* the last call was a symbol's turn in a fetch cycle and every source
\* failed it
FailedTurn == po_call.for = "cycle" /\ ~po_call.data

\* C21: when a symbol's turn in a fetch cycle gets no candles,
\* get_historical_klines has returned the empty list (no source gave data:
\* each one was unhealthy, raised or returned nothing), the buffers are as
\* they were before the turn, the cycle has moved on to the next symbol of
\* the monitoring list (or, after the last one, to the wait for the next
\* hour), and a cycle that has ended has given every monitored symbol its
\* turn.
C21_FailedFetchSkipsSymbol ==
    /\ FailedTurn =>
          /\ po_call.by = "none"
          /\ \A k \in 1..Len(po_call.asks) : po_call.asks[k].outcome # "data"
          /\ po_buffers = po_call.before
          /\ po_phase \in {"cycle", "wait"}
          /\ po_call.cycle = po_cycles =>
                /\ po_symbol = NextActive(po_call.symbol)
                /\ po_phase = IF po_symbol > PollSymbols THEN "wait" ELSE "cycle"
    /\ (po_phase = "wait" /\ po_cycles > 0) => po_turns = Cardinality(po_active)

\* the last turn of the first cycle failed after sources were asked, and
\* the second cycle has begun
C21_Witness ==
    /\ FailedTurn
    /\ po_call.asks # <<>>
    /\ po_call.cycle = 1
    /\ po_call.symbol < PollSymbols
    /\ Cardinality(po_active) >= 2
    /\ po_cycles = 2
    /\ po_phase = "cycle"

-----------------------------------------------------------------------------
(* process_kline_data and its analyze_pattern tasks: the buffer and the    *)
(* frames built from it                                                    *)

MaxPasses == 2     \* bars processed, one analysis pass each

\* the exchange's bars for a market p, as the dicts the buffer holds
MarketBars(p, n) ==
    LET d == SpikeFrame([p EXCEPT !.n = n])
    IN  [k \in 1..n |-> [kind |-> "kline", time |-> d.timestamp[k], open |-> d.open[k],
                         high |-> d.high[k], low |-> d.low[k], close |-> d.close[k],
                         volume |-> d.volume[k]]]

\* pd.DataFrame(list(buffer)).set_index('timestamp'), before any indicator
FrameOfList(bars) ==
    [has_indicators |-> FALSE, ema21 |-> <<>>, ema55 |-> <<>>, ema144 |-> <<>>,
     macd |-> <<>>, rsi |-> <<>>]
    @@ BufferFrame(bars)

\* a faulty variant: the frame is a view of the deque, its bar columns are
\* those of the buffer as it is when they are read
FrameData_View(d, live) ==
    LET now_in_buffer == BufferFrame(live)
    IN  [d EXCEPT !.timestamp = now_in_buffer.timestamp, !.open = now_in_buffer.open,
                  !.high = now_in_buffer.high, !.low = now_in_buffer.low,
                  !.close = now_in_buffer.close, !.volume = now_in_buffer.volume]

\* df = pd.DataFrame(list(self.kline_buffers[symbol])): the frame holds its
\* own copy of the rows, whatever the deque (live) holds when df is read
FrameData(d, live) == d

FrameInit ==
    /\ \E p \in GeometryInputs, env \in {e \in LibEnvs : e.ema = 1} :
          /\ fr_input = [p |-> p, env |-> env]
          /\ fr_fed = MarketBars(p, p.n - 1)
    /\ fr_buffer = DequeExtend(<<>>, fr_fed)
    /\ fr_passes = <<>>
    /\ fr_tasks = <<>>
    /\ FrameOnly

\* process_kline_data for the next bar of the market: append, build the
\* frame, compute, detect, create the tasks
ProcessKlineDataFrame ==
    /\ Len(fr_passes) < MaxPasses
    /\ LET all  == MarketBars(fr_input.p, Len(fr_fed) + 1)
           bar  == all[Len(all)]
           buf  == DequeAppend(fr_buffer, bar)
           rows == buf                      \* list(self.kline_buffers[symbol])
           r    == process_pass(FrameOfList(rows),
                                LibColumns(Len(rows), fr_input.p.atr, fr_input.env))
           me   == Len(fr_passes) + 1
       IN  /\ fr_buffer' = buf
           /\ fr_fed' = Append(fr_fed, bar)
           /\ fr_passes' = Append(fr_passes, [df |-> r.df, built |-> rows])
           /\ fr_tasks' = fr_tasks \o [k \in 1..Len(r.tasks) |->
                                          [pass |-> me, ran_after |-> 0] @@ r.tasks[k]]
    /\ UNCHANGED fr_input
    /\ UNCHANGED exceptFrame

\* a created task runs analyze_pattern on the df it was given and hands the
\* signal to send_signal_to_webhook (the delivery is followed in SpecSend
\* and leaves buffer and frames alone); ran_after
\* notes how many passes had been made when it ran
AnalyzePatternTask ==
    /\ \E k \in 1..Len(fr_tasks) :
          /\ fr_tasks[k].state = "created"
          /\ \A j \in 1..(k - 1) : fr_tasks[j].state # "created"
          /\ LET frame == FrameData(fr_passes[fr_tasks[k].pass].df, fr_buffer)
                 signal == analyze_pattern(Symbol, frame, fr_tasks[k].pattern)
             IN  fr_tasks' = [fr_tasks EXCEPT ![k].signals = Append(@, signal),
                                              ![k].send_calls = @ + SendCalls(signal),
                                              ![k].ran_after = Len(fr_passes),
                                              ![k].state = "done"]
    /\ UNCHANGED <<fr_input, fr_buffer, fr_fed, fr_passes>>
    /\ UNCHANGED exceptFrame

FrameNext == ProcessKlineDataFrame \/ AnalyzePatternTask

SpecFrame == FrameInit /\ [][FrameNext]_frVars

\* a task's signal carries the time and close of the bar that stood at the
\* candidate's position when the task's pass built its frame
ReadsOwnFrame(task) ==
    LET bar == fr_passes[task.pass].built[task.pattern.pattern_idx + 1]
    IN  \A i \in 1..Len(task.signals) :
            /\ task.signals[i].timestamp = bar.time
            /\ task.signals[i].price = bar.close

\* the bar columns of a pass's frame are the rows it was built from
FrameKeepsRows(pass) ==
    LET raw == BufferFrame(pass.built)
    IN  /\ pass.df.timestamp = raw.timestamp
        /\ pass.df.open = raw.open /\ pass.df.high = raw.high
        /\ pass.df.low = raw.low /\ pass.df.close = raw.close
        /\ pass.df.volume = raw.volume

\* C23: the buffer holds exactly the bars fed to it (the newest buffer_size
\* of them, unaltered: no analysis step writes to it), every frame keeps
\* the rows it was built from through the indicator computations, and each
\* task reads the rows of its own pass's frame, whatever was appended to
\* the buffer since.
C23_PassWorksOnCopy ==
    /\ fr_buffer = LastN(fr_fed, buffer_size)
    /\ \A i \in 1..Len(fr_passes) : FrameKeepsRows(fr_passes[i])
    /\ \A k \in 1..Len(fr_tasks) : ReadsOwnFrame(fr_tasks[k])

\* a task of the first pass ran after the next bar had been appended and
\* had pushed the oldest bar out of the full buffer
C23_Witness ==
    /\ Len(fr_passes) = 2
    /\ Len(fr_fed) > buffer_size
    /\ fr_buffer # fr_passes[1].built
    /\ \E k \in 1..Len(fr_tasks) :
          /\ fr_tasks[k].pass = 1
          /\ fr_tasks[k].state = "done"
          /\ fr_tasks[k].ran_after = 2

====
